---- MODULE Spec2Model ----
(***************************************************************************)
(* A model of packages/next/server/next-server.ts: page resolution         *)
(* (renderToResponse), the incremental cache key (ssgCacheKey), the cache  *)
(* producer with its fallback modes, and the response cache that           *)
(* coalesces concurrent productions of one key.                            *)
(*                                                                         *)
(* Paths are sequences of segments; a cache key is the string the code     *)
(* builds.  The response cache (./response-cache) and the loaders are not  *)
(* part of next-server.ts: they follow their stated contract.              *)
(***************************************************************************)
EXTENDS Integers, Sequences, FiniteSets, TLC

VARIABLES
    server,         \* construction-time configuration: dev, minimalMode, i18n locales
    pagesManifest,  \* the pages manifest, in declaration order, with each page's kind
    dynamicRoutes,  \* this.dynamicRoutes, built once by generateRoutes
    now,            \* the clock, in seconds
    cache,          \* incremental cache: key -> entry
    pending,        \* response cache: key -> the request whose production is in flight
    reqs,           \* per request: its position in the pipeline and its locals
    workload,       \* the requests the clients may issue
    renderer        \* what renderToHTML may report for the pages of this build

vars == <<server, pagesManifest, dynamicRoutes, now, cache, pending, reqs, workload, renderer>>

(***************************************************************************)
(* Bounds of the model.                                                    *)
(***************************************************************************)
NReq == 2
MaxTime == 1
MaxDepth == 1

Reqs == 1..NReq

(***************************************************************************)
(* Values.                                                                 *)
(***************************************************************************)
NoKey == "null"
None == "none"
NoReq == CHOOSE n \in 0..NReq : n \notin Reqs
NoMatch == [matched |-> FALSE, params |-> <<>>]

\* revalidate: result.revalidate !== undefined ? result.revalidate : 1
DefaultRevalidate == 1

\* STATIC_STATUS_PAGES, as the code uses it
STATIC_STATUS_PAGES == {"/500"}

(***************************************************************************)
(* PathUtils.                                                              *)
(***************************************************************************)
RECURSIVE JoinSegs(_)
JoinSegs(s) == IF s = <<>> THEN "" ELSE "/" \o Head(s) \o JoinSegs(Tail(s))

\* the string form of a path: `/${segs.join('/')}`
PathStr(s) == IF s = <<>> THEN "/" ELSE JoinSegs(s)

IsParamSeg(s) == s \in {"[id]", "[slug]"}
IsCatchAllSeg(s) == s \in {"[...all]"}
IsOptCatchAllSeg(s) == s \in {"[[...opt]]"}
IsDynamicSeg(s) == IsParamSeg(s) \/ IsCatchAllSeg(s) \/ IsOptCatchAllSeg(s)

\* isDynamicRoute(page): some segment is a [param]
isDynamicRoute(page) == \E i \in 1..Len(page) : IsDynamicSeg(page[i])

\* normalizeLocalePath(pathname, locales)
normalizeLocalePath(path, locales) ==
    IF path # <<>> /\ Head(path) \in locales
    THEN [detectedLocale |-> Head(path), pathname |-> Tail(path)]
    ELSE [detectedLocale |-> "", pathname |-> path]

\* decodeURIComponent on one segment; Malformed segments make it throw
Malformed == {"%E0%A4%A", "%E0%A4%A.json"}
decodeURIComponent(seg) ==
    CASE seg = "%61" -> "a"
      [] seg = "a%2Fb" -> "a/b"
      [] OTHER -> seg

\* escapePathDelimiters(seg, true): path delimiters are percent-encoded again
escapePathDelimiters(seg) ==
    CASE seg = "a/b" -> "a%2Fb"
      [] OTHER -> seg

(***************************************************************************)
(* The pages manifest and the loader.                                      *)
(*   kind: "html" (prebuilt static HTML string), "ssg" (getStaticProps),   *)
(*         "ssp" (getServerSideProps), "gip" (neither);                    *)
(*   fallback: the prerender manifest's field for a dynamic ssg page,      *)
(*         "string" (a fallback file), "null" or "false".                  *)
(***************************************************************************)
Page(segs, kind, fallback) == [page |-> segs, kind |-> kind, fallback |-> fallback]
NoPage == Page(<<>>, None, None)
NotFound == [found |-> FALSE, page |-> NoPage, underLocale |-> ""]

ManifestHas(m, segs) == \E i \in 1..Len(m) : m[i].page = segs
ManifestEntry(m, segs) == m[CHOOSE i \in 1..Len(m) : m[i].page = segs]

LoadNormalized(m, n) ==
    IF ManifestHas(m, n.pathname)
    THEN [found |-> TRUE, page |-> ManifestEntry(m, n.pathname), underLocale |-> n.detectedLocale]
    ELSE NotFound

\* loadComponents(distDir, pagePath): the page bundle, or ENOENT. A path
\* under a locale prefix loads the page of that name.
loadComponents(m, locales, pagePath) ==
    LoadNormalized(m, normalizeLocalePath(pagePath, locales))

\* normalizePagePath(pathname) + '.amp': the static AMP variant of a page
AmpVariant(pathname) ==
    IF pathname = <<>> THEN <<"index.amp">>
    ELSE SubSeq(pathname, 1, Len(pathname) - 1) \o <<pathname[Len(pathname)] \o ".amp">>

\* the paths findPageComponents tries, in order
CandidatePaths(pathname, locale, amp) ==
    IF locale = ""
    THEN (IF amp THEN <<AmpVariant(pathname), pathname>> ELSE <<pathname>>)
    ELSE (IF amp
          THEN <<<<locale>> \o AmpVariant(pathname), <<locale>> \o pathname,
                 AmpVariant(pathname), pathname>>
          ELSE <<<<locale>> \o pathname, pathname>>)

\* a static HTML file is only taken from under the request's locale
Usable(c, locale) ==
    c.found /\ ~(locale # "" /\ c.page.kind = "html" /\ c.underLocale # locale)

RECURSIVE FirstUsable(_, _, _, _)
FirstUsable(m, locales, locale, paths) ==
    IF paths = <<>> THEN NotFound
    ELSE IF Usable(loadComponents(m, locales, Head(paths)), locale)
    THEN loadComponents(m, locales, Head(paths))
    ELSE FirstUsable(m, locales, locale, Tail(paths))

\* findPageComponents(pathname, query, params): the first path that loads
findPageComponents(m, locales, pathname, locale, amp) ==
    FirstUsable(m, locales, locale, CandidatePaths(pathname, locale, amp))

(***************************************************************************)
(* Dynamic routes: getSortedRoutes orders pages by specificity, a literal  *)
(* segment before a [param], a [param] before a [...catchAll], and that    *)
(* before an optional [[...catchAll]]; a page sorts before its children.   *)
(***************************************************************************)
Alphabet == <<"1", "2", "404", "500", "_error", "a", "about", "about.amp",
              "create", "en", "fr", "nope", "post">>

RECURSIVE AlphaIndex(_, _)
AlphaIndex(s, i) ==
    IF i > Len(Alphabet) THEN 0
    ELSE IF Alphabet[i] = s THEN i
    ELSE AlphaIndex(s, i + 1)

SegRank(s) ==
    IF IsOptCatchAllSeg(s) THEN Len(Alphabet) + 3
    ELSE IF IsCatchAllSeg(s) THEN Len(Alphabet) + 2
    ELSE IF IsParamSeg(s) THEN Len(Alphabet) + 1
    ELSE AlphaIndex(s, 1)

RECURSIVE RouteBefore(_, _)
RouteBefore(a, b) ==
    IF a = <<>> THEN b # <<>>
    ELSE IF b = <<>> THEN FALSE
    ELSE IF Head(a) = Head(b) THEN RouteBefore(Tail(a), Tail(b))
    ELSE SegRank(Head(a)) < SegRank(Head(b))

RECURSIVE InsertRoute(_, _)
InsertRoute(page, sorted) ==
    IF sorted = <<>> THEN <<page>>
    ELSE IF RouteBefore(page, Head(sorted)) THEN <<page>> \o sorted
    ELSE <<Head(sorted)>> \o InsertRoute(page, Tail(sorted))

RECURSIVE getSortedRoutes(_)
getSortedRoutes(pages) ==
    IF pages = <<>> THEN <<>>
    ELSE InsertRoute(Head(pages), getSortedRoutes(Tail(pages)))

RECURSIVE DedupDynamic(_, _)
DedupDynamic(pages, added) ==
    IF pages = <<>> THEN <<>>
    ELSE IF Head(pages) \in added \/ ~isDynamicRoute(Head(pages))
         THEN DedupDynamic(Tail(pages), added)
         ELSE <<Head(pages)>> \o DedupDynamic(Tail(pages), added \cup {Head(pages)})

\* getDynamicRoutes(): the dynamic pages of the manifest, sorted, each once
getDynamicRoutes(m, locales) ==
    DedupDynamic(
        getSortedRoutes([i \in 1..Len(m) |-> normalizeLocalePath(m[i].page, locales).pathname]),
        {})

\* getRouteMatcher(getRouteRegex(page)): the params of path under page.
\* A [param] takes one segment, a [...catchAll] the one or more that remain,
\* an optional catch-all the zero or more that remain.
MatchedWith(name, value, rest) ==
    [matched |-> rest.matched, params |-> <<<<name, value>>>> \o rest.params]

\* the matcher decodes every value it captured
DecodeValue(v) == [i \in 1..Len(v) |-> decodeURIComponent(v[i])]
DecodeParams(ps) == [i \in 1..Len(ps) |-> <<ps[i][1], DecodeValue(ps[i][2])>>]
ValueMalformed(v) == \E i \in 1..Len(v) : v[i] \in Malformed
ParamsMalformed(ps) == \E i \in 1..Len(ps) : ValueMalformed(ps[i][2])

RECURSIVE RouteMatch(_, _)
RouteMatch(page, path) ==
    IF page = <<>> THEN [matched |-> path = <<>>, params |-> <<>>]
    ELSE IF IsOptCatchAllSeg(Head(page))
         THEN [matched |-> TRUE, params |-> <<<<Head(page), path>>>>]
    ELSE IF IsCatchAllSeg(Head(page))
         THEN [matched |-> path # <<>>, params |-> <<<<Head(page), path>>>>]
    ELSE IF path = <<>> THEN NoMatch
    ELSE IF IsParamSeg(Head(page))
         THEN MatchedWith(Head(page), <<Head(path)>>, RouteMatch(Tail(page), Tail(path)))
    ELSE IF Head(page) = Head(path) THEN RouteMatch(Tail(page), Tail(path))
    ELSE NoMatch

(***************************************************************************)
(* renderToResponseWithComponents: the locals computed before the cache is *)
(* consulted.  `in` is the request: pathname and query as render() got     *)
(* them, the path of req.url, the rewritten url if any, and what the       *)
(* headers say (preview cookies, a bot user-agent).                        *)
(***************************************************************************)
BuildId == "BUILD"
DecodeError == "DecodeError"
NoFallbackError == "NoFallbackError"
RenderError == "RenderError"
InvariantError == "InvariantError"

\* path.replace(/\.json$/, '') on the last segment
StripJson(seg) ==
    CASE seg = "1.json" -> "1"
      [] seg = "2.json" -> "2"
      [] seg = "create.json" -> "create"
      [] seg = "about.json" -> "about"
      [] seg = "index.json" -> "index"
      [] seg = "en.json" -> "en"
      [] seg = "fr.json" -> "fr"
      [] OTHER -> seg

StripLastJson(path) ==
    IF path = <<>> THEN <<>>
    ELSE SubSeq(path, 1, Len(path) - 1) \o <<StripJson(path[Len(path)])>>

\* denormalizePagePath: /index is the page /
denormalizePagePath(path) == IF path = <<"index">> THEN <<>> ELSE path

RECURSIVE AfterSeg(_, _)
AfterSeg(path, seg) ==
    IF path = <<>> THEN <<>>
    ELSE IF Head(path) = seg THEN Tail(path)
    ELSE AfterSeg(Tail(path), seg)

StripLocaleIf(path, locales) ==
    IF locales # {} THEN normalizeLocalePath(path, locales).pathname ELSE path

\* the path of the data url taken as the path of the page
DataPathKept(path, locales) == path

stripNextDataPath(path, locales) ==
    IF \E i \in 1..Len(path) : path[i] = BuildId
    THEN StripLocaleIf(denormalizePagePath(StripLastJson(AfterSeg(path, BuildId))), locales)
    ELSE StripLocaleIf(path, locales)

isSSG(page) == page.kind = "ssg"
hasServerProps(page) == page.kind = "ssp"
hasStaticPaths(page) == page.fallback # None

\* no request taken as a data request
NeverData(page, in) == FALSE

isDataReq(page, in) == in.data /\ (isSSG(page) \/ hasServerProps(page))

isPreviewMode(page, in) == (hasServerProps(page) \/ isSSG(page)) /\ in.preview

\* opts.supportsDynamicHTML after the adjustment made for this page
supportsDynamicHTML(srv, page, in, dynHTML) ==
    IF dynHTML = TRUE
    THEN /\ ~isSSG(page)
         /\ ~srv.isLikeServerless
         /\ ~in.amp
         /\ ~srv.minimalMode
         /\ ~srv.documentGetInitialProps
    ELSE dynHTML

resolvedUrlPathname(srv, page, in) ==
    IF isDataReq(page, in)
    THEN stripNextDataPath(
            normalizeLocalePath(IF in.hasRewrote THEN in.rewrote ELSE in.url, srv.locales).pathname,
            srv.locales)
    ELSE normalizeLocalePath(IF in.hasRewrote THEN in.rewrote ELSE in.url, srv.locales).pathname

LocaleSegs(locale) == IF locale # "" THEN <<locale>> ELSE <<>>

\* the key as the code composes it, before its segments are decoded
RawCacheKey(srv, pathname, page, in, dynHTML) ==
    IF pathname \in {<<"404">>, <<"500">>} /\ isSSG(page)
    THEN [null |-> FALSE, segs |-> LocaleSegs(in.locale) \o pathname]
    ELSE IF \/ isPreviewMode(page, in)
            \/ ~isSSG(page)
            \/ srv.minimalMode
            \/ supportsDynamicHTML(srv, page, in, dynHTML)
    THEN [null |-> TRUE, segs |-> <<>>]
    ELSE IF (pathname = <<>> \/ resolvedUrlPathname(srv, page, in) = <<>>) /\ in.locale # ""
    THEN [null |-> FALSE, segs |-> LocaleSegs(in.locale)]
    ELSE [null |-> FALSE, segs |-> LocaleSegs(in.locale) \o resolvedUrlPathname(srv, page, in)]

\* each segment decoded and its path delimiters escaped again
DecodedKey(raw, amp) ==
    IF raw.null THEN NoKey
    ELSE IF \E i \in 1..Len(raw.segs) : raw.segs[i] \in Malformed THEN DecodeError
    ELSE IF raw.segs = <<>> THEN "/" \o amp
    ELSE JoinSegs([i \in 1..Len(raw.segs) |->
                      escapePathDelimiters(decodeURIComponent(raw.segs[i]))]) \o amp

\* ssgCacheKey: NoKey, or the key; DecodeError when a segment does not decode
ssgCacheKey(srv, pathname, page, in, dynHTML) ==
    DecodedKey(RawCacheKey(srv, pathname, page, in, dynHTML), IF in.amp THEN ".amp" ELSE "")

NullKeyArgument(srv, pathname, page, in, dynHTML) == NoKey

\* the key handed to responseCache.get
CacheGetKey(srv, pathname, page, in, dynHTML) == ssgCacheKey(srv, pathname, page, in, dynHTML)

(***************************************************************************)
(* The producer handed to responseCache.get.                               *)
(***************************************************************************)
\* getStaticPaths(pathname).fallbackMode, from the prerender manifest's field
getStaticPathsFallbackMode(page) ==
    IF page.fallback = "string" THEN "static"
    ELSE IF page.fallback = "null" THEN "blocking"
    ELSE "false"

\* getStaticPaths(pathname).staticPaths is undefined in this server
StaticPathsDefined == FALSE

BotBlocks(mode, bot) == IF mode = "static" /\ bot THEN "blocking" ELSE mode

\* every page taken to block on its render
AlwaysBlocking(page, in) == "blocking"

\* every page taken to have a prebuilt fallback file
AlwaysStatic(page, in) == "static"

fallbackModeOf(page, in) ==
    BotBlocks(IF hasStaticPaths(page) THEN getStaticPathsFallbackMode(page) ELSE "false", in.bot)

\* a producer that does not ask whether the response has gone out
RespondedOrNot(srv, pathname, page, in, key, hasResolved, resSent) ==
    /\ srv.minimalMode # TRUE
    /\ fallbackModeOf(page, in) # "blocking"
    /\ key # NoKey
    /\ ~isPreviewMode(page, in)
    /\ isDynamicRoute(pathname)
    /\ (~srv.dev \/ ~StaticPathsDefined)

\* the condition under which the producer does not simply render
ChoosesFallback(srv, pathname, page, in, key, hasResolved, resSent) ==
    /\ srv.minimalMode # TRUE
    /\ fallbackModeOf(page, in) # "blocking"
    /\ key # NoKey
    /\ ~(hasResolved \/ resSent)
    /\ ~isPreviewMode(page, in)
    /\ isDynamicRoute(pathname)
    /\ (~srv.dev \/ ~StaticPathsDefined)

\* a producer that renders whatever the fallback mode
AlwaysRender(srv, pathname, page, in, key, hasResolved, resSent) == "render"

\* what the producer does: throw NoFallbackError, return the prebuilt
\* skeleton, render the fallback on demand (development), or render fully
ProducerPlan(srv, pathname, page, in, key, hasResolved, resSent) ==
    IF /\ ChoosesFallback(srv, pathname, page, in, key, hasResolved, resSent)
       /\ (~srv.dev \/ StaticPathsDefined)
       /\ fallbackModeOf(page, in) # "static"
    THEN "throw"
    ELSE IF /\ ChoosesFallback(srv, pathname, page, in, key, hasResolved, resSent)
            /\ ~isDataReq(page, in)
    THEN (IF ~srv.dev THEN "skeleton" ELSE "devFallback")
    ELSE "render"

(***************************************************************************)
(* Cache entries, results of responseCache.get, responses.                 *)
(***************************************************************************)
Reval(kind, n) == [kind |-> kind, n |-> n]
RevalUndefined == Reval("undefined", 0)
RevalFalse == Reval("false", 0)

\* value: "PAGE", "REDIRECT" or "NOTFOUND" (a null value);
\* from: "render", "skeleton" (getFallback) or "devFallback";
\* by, n: the request whose producer made it, and which of its productions
Entry(value, from, revalidate, pathname, dataReq, by, n, at) ==
    [value |-> value, from |-> from, revalidate |-> revalidate, pathname |-> pathname,
     dataReq |-> dataReq, by |-> by, n |-> n, at |-> at]
NoEntry == Entry(None, None, RevalUndefined, <<>>, FALSE, NoReq, 0, 0)

Got(tag, err, entry) == [tag |-> tag, err |-> err, entry |-> entry]
GotNothing == Got("none", None, NoEntry)
GotEntry(e) == Got("entry", None, e)
GotNull == Got("null", None, NoEntry)
GotThrow(err) == Got("throw", err, NoEntry)

Out(type, body, entry) == [type |-> type, body |-> body, entry |-> entry]
NoOut == Out(None, None, NoEntry)

NoInput == [pathname |-> <<>>, url |-> <<>>, hasRewrote |-> FALSE, rewrote |-> <<>>,
            locale |-> "", amp |-> FALSE, data |-> FALSE, preview |-> FALSE,
            bot |-> FALSE, bubble |-> FALSE, direct |-> FALSE,
            preflight |-> FALSE, subrequests |-> {}]

NoProduction == <<NoReq, 0>>

IdleReq ==
    [pc |-> "idle", in |-> NoInput, phase |-> None, dyn |-> 0, pathname |-> <<>>,
     page |-> NoPage, params |-> <<>>, status |-> 0, dynHTML |-> FALSE, key |-> NoKey,
     rethrow |-> FALSE, depth |-> 0, out |-> NoOut, rendered |-> {}, nprod |-> 0,
     how |-> None, joined |-> NoProduction, got |-> GotNothing,
     headers |-> <<>>, mw |-> [outcome |-> None, finished |-> FALSE, invoked |-> <<>>],
     waitUntil |-> [logged |-> <<>>, unhandled |-> <<>>], chainRuns |-> 0, hops |-> 0]

\* isResSent(res)
isResSent(q) == q.pc = "done" /\ q.out.type \in {"html", "json", "redirect", "ended"}

(***************************************************************************)
(* The renderer (renderToHTML) is outside the server: every outcome it can *)
(* report is possible.                                                     *)
(***************************************************************************)
Reports(kind, revalidate) == [kind |-> kind, revalidate |-> revalidate]

PageOrThrow == {Reports("PAGE", Reval("number", 1)), Reports("THROW", RevalUndefined)}
PageOrNotFound == {Reports("PAGE", RevalUndefined), Reports("NOTFOUND", Reval("number", 1))}

\* the pages of one build: what their render may come to
Renderers ==
    {PageOrThrow,
     {Reports("PAGE", RevalFalse), Reports("NOBODY", RevalUndefined)},
     PageOrNotFound,
     {Reports("REDIRECT", Reval("number", 1)), Reports("THROW", RevalUndefined)}}

NoOutcome == Reports(None, RevalUndefined)

\* notFound and redirect come from getStaticProps or getServerSideProps
CanReport(page, o) ==
    o.kind \in {"NOTFOUND", "REDIRECT"} => (isSSG(page) \/ hasServerProps(page))

\* doRender(): the entry made of what the renderer reported
doRender(o, from, pathname, dataReq, by, n, at) ==
    IF o.kind = "THROW" THEN GotThrow(RenderError)
    ELSE IF o.kind = "NOBODY" THEN GotNull
    ELSE GotEntry(Entry(o.kind, from, o.revalidate, pathname, dataReq, by, n, at))

\* the renderer's revalidate as it is, defined or not
AsRendered(got) == got

\* `delete result.revalidate`
WithoutRevalidate(got) ==
    IF got.tag = "entry" THEN GotEntry([got.entry EXCEPT !.revalidate = RevalUndefined]) ELSE got

\* revalidate: result.revalidate !== undefined ? result.revalidate : 1
WithDefaultRevalidate(got) ==
    IF got.tag = "entry" /\ got.entry.revalidate = RevalUndefined
    THEN GotEntry([got.entry EXCEPT !.revalidate = Reval("number", DefaultRevalidate)])
    ELSE got

\* what the producer returns or throws, by its plan
Produce(plan, o, pathname, dataReq, by, n, at) ==
    IF plan = "throw" THEN GotThrow(NoFallbackError)
    ELSE IF plan = "skeleton"
    THEN GotEntry(Entry("PAGE", "skeleton", RevalUndefined, pathname, dataReq, by, n, at))
    ELSE IF plan = "devFallback"
    THEN WithoutRevalidate(doRender(o, "devFallback", pathname, dataReq, by, n, at))
    ELSE WithDefaultRevalidate(doRender(o, "render", pathname, dataReq, by, n, at))

(***************************************************************************)
(* renderToResponse, renderToResponseWithComponents and                    *)
(* renderErrorToResponse, as the steps of one request between two awaits   *)
(* of the response cache.                                                  *)
(***************************************************************************)
\* the payload goes back through renderToResponse to pipe(), which sends it;
\* after a 500 the error is thrown again in development and minimal mode
Complete(q, out) ==
    [q EXCEPT !.pc = "done",
              !.out = IF q.rethrow THEN Out("thrown", RenderError, NoEntry) ELSE out]

\* the hardcoded body under the status the request had
StatusKept(q) == Complete(q, Out("html", "Internal Server Error", NoEntry))

InternalServerError(q) ==
    Complete([q EXCEPT !.status = 500], Out("html", "Internal Server Error", NoEntry))

StatusFor(pathname, dataReq, status) ==
    IF PathStr(pathname) \in STATIC_STATUS_PAGES THEN 500
    ELSE IF pathname = <<"404">> /\ ~dataReq THEN 404
    ELSE status

WithPage(q, phase, d, pathname, page, params) ==
    [q EXCEPT !.phase = phase, !.dyn = d, !.pathname = pathname, !.page = page,
              !.params = params, !.key = NoKey, !.how = None,
              !.status = StatusFor(pathname, isDataReq(page, q.in), q.status)]

\* opts is ctx.renderOpts itself only for the exact page: its adjustment stays
Keyed(q, key, dyn) ==
    IF key = DecodeError
    THEN [q EXCEPT !.pc = "threw"]
    ELSE [q EXCEPT !.pc = "get", !.key = key,
                   !.dynHTML = IF q.phase = "page" /\ q.dyn = 0 THEN dyn ELSE q.dynHTML]

\* renderToResponseWithComponents up to its call of responseCache.get
StartPage(q, phase, d, pathname, page, params) ==
    IF page.kind = "html"
    THEN Complete(WithPage(q, phase, d, pathname, page, params), Out("html", "static", NoEntry))
    ELSE Keyed(WithPage(q, phase, d, pathname, page, params),
               CacheGetKey(server, pathname, page, q.in, q.dynHTML),
               supportsDynamicHTML(server, page, q.in, q.dynHTML))

Find(q, pathname) ==
    findPageComponents(pagesManifest, server.locales, pathname, q.in.locale, q.in.amp)

StatusPage(status) ==
    IF status = 404 THEN <<"404">> ELSE IF status = 500 THEN <<"500">> ELSE <<"400">>

\* /_error taken before the pages named after the status
ErrorPageFirst(status, r404, rStatus, rError) ==
    IF rError.found
    THEN [found |-> TRUE, pathname |-> <<"_error">>, page |-> rError.page]
    ELSE IF status = 404 /\ r404.found
    THEN [found |-> TRUE, pathname |-> <<"404">>, page |-> r404.page]
    ELSE [found |-> rStatus.found, pathname |-> StatusPage(status), page |-> rStatus.page]

\* the error page: /404 for a 404, else the static status page, else /_error
SelectErrorPage(status, r404, rStatus, rError) ==
    IF status = 404 /\ r404.found
    THEN [found |-> TRUE, pathname |-> <<"404">>, page |-> r404.page]
    ELSE IF PathStr(StatusPage(status)) \in STATIC_STATUS_PAGES /\ rStatus.found
    THEN [found |-> TRUE, pathname |-> StatusPage(status), page |-> rStatus.page]
    ELSE [found |-> rError.found, pathname |-> <<"_error">>, page |-> rError.page]

InternalServerErrorIfThrew(q, started) ==
    IF started.pc = "threw" THEN InternalServerError(q) ELSE started

StartErrorPage(q, sel) ==
    IF ~sel.found THEN InternalServerError(q)
    ELSE InternalServerErrorIfThrew(q, StartPage(q, "error", 0, sel.pathname, sel.page, <<>>))

\* renderErrorToResponse: any failure ends in the hardcoded body
renderErrorToResponse(q) ==
    StartErrorPage(q, SelectErrorPage(q.status, Find(q, <<"404">>),
                                      Find(q, StatusPage(q.status)), Find(q, <<"_error">>)))

\* the catch blocks of renderToResponse for what is not a NoFallbackError
CatchOther(q, err) ==
    IF q.phase = "error" THEN InternalServerError(q)
    ELSE IF err = DecodeError THEN renderErrorToResponse([q EXCEPT !.status = 400])
    ELSE renderErrorToResponse([q EXCEPT !.status = 500,
                                         !.rethrow = server.minimalMode \/ server.dev])

CaughtSync(started) ==
    IF started.pc = "threw" THEN CatchOther(started, DecodeError) ELSE started

\* the first dynamic route from i on that matches and has components, or 0
RECURSIVE FirstDynamic(_, _)
FirstDynamic(q, i) ==
    IF i > Len(dynamicRoutes) THEN 0
    ELSE IF /\ RouteMatch(dynamicRoutes[i], q.in.pathname).matched
            /\ \/ ParamsMalformed(RouteMatch(dynamicRoutes[i], q.in.pathname).params)
               \/ Find(q, dynamicRoutes[i]).found
    THEN i
    ELSE FirstDynamic(q, i + 1)

StartDynamic(q, i) ==
    IF i = 0 THEN renderErrorToResponse([q EXCEPT !.status = 404])
    ELSE IF ParamsMalformed(RouteMatch(dynamicRoutes[i], q.in.pathname).params)
    THEN CatchOther(q, DecodeError)
    ELSE CaughtSync(StartPage(q, "page", i, dynamicRoutes[i], Find(q, dynamicRoutes[i]).page,
                              DecodeParams(RouteMatch(dynamicRoutes[i], q.in.pathname).params)))

\* the loop over this.dynamicRoutes, from candidate `from` on
TryDynamic(q, from) == StartDynamic(q, FirstDynamic(q, from))

DynamicFirst(q, exact) == TryDynamic(q, 1)

\* the exact page first, then the dynamic routes
ExactFirst(q, exact) ==
    IF exact.found
    THEN CaughtSync(StartPage(q, "page", 0, q.in.pathname, exact.page, <<>>))
    ELSE TryDynamic(q, 1)

ResolvePage(q) == ExactFirst(q, Find(q, q.in.pathname))

\* render404 -> renderError -> pipe(renderErrorToResponse)
render404(q) ==
    IF q.depth < MaxDepth
    THEN renderErrorToResponse([q EXCEPT !.status = 404, !.depth = q.depth + 1,
                                         !.dynHTML = ~q.in.bot])
    ELSE [q EXCEPT !.pc = "render404"]

\* a handleRequest that throws every error on
ThrownOn(q, err) == [q EXCEPT !.pc = "done", !.out = Out("thrown", err, NoEntry)]

\* handleRequest's catch: an error that left run() is thrown on in
\* development and minimal mode, and ends the response with a 500 otherwise
Unhandled(q, err) ==
    IF server.minimalMode \/ server.dev
    THEN [q EXCEPT !.pc = "done", !.out = Out("thrown", err, NoEntry)]
    ELSE [q EXCEPT !.pc = "done", !.status = 500,
                   !.out = Out("ended", "Internal Server Error", NoEntry)]

\* a NoFallbackError that renderToResponse threw on: the catch-all route
\* catches it and is not finished, no route comes after it and run() ends
\* in render404; the /_next/data route catches nothing
Bubbled(q) ==
    IF q.in.data THEN Unhandled(q, NoFallbackError) ELSE render404(q)

\* the catch blocks of renderToResponse and renderErrorToResponse
Catch(q, err) ==
    IF err = NoFallbackError /\ q.phase = "page"
    THEN IF q.in.bubble
         THEN Bubbled(q)
         ELSE TryDynamic(q, q.dyn + 1)
    ELSE CatchOther(q, err)

\* "not found" answered as a page is
NotFoundAsPage(q, got, dataReq) ==
    IF got.tag = "throw" THEN Catch(q, got.err)
    ELSE IF got.tag = "null"
    THEN IF q.key # NoKey THEN Catch(q, InvariantError)
         ELSE Complete(q, Out(None, None, NoEntry))
    ELSE IF got.entry.value = "REDIRECT"
    THEN IF dataReq
         THEN Complete(q, Out("json", "redirect", got.entry))
         ELSE Complete([q EXCEPT !.status = 307], Out("redirect", "Location", got.entry))
    ELSE Complete(q, Out(IF dataReq THEN "json" ELSE "html",
                         IF dataReq THEN "pageData" ELSE "html", got.entry))

\* every redirect answered with the redirect response
RedirectForAll(q, got, dataReq) ==
    IF got.tag = "throw" THEN Catch(q, got.err)
    ELSE IF got.tag = "null"
    THEN IF q.key # NoKey THEN Catch(q, InvariantError)
         ELSE Complete(q, Out(None, None, NoEntry))
    ELSE IF got.entry.value = "NOTFOUND"
    THEN IF dataReq
         THEN Complete([q EXCEPT !.status = 404], Out("ended", "notFound", got.entry))
         ELSE render404(q)
    ELSE IF got.entry.value = "REDIRECT"
    THEN Complete([q EXCEPT !.status = 307], Out("redirect", "Location", got.entry))
    ELSE Complete(q, Out(IF dataReq THEN "json" ELSE "html",
                         IF dataReq THEN "pageData" ELSE "html", got.entry))

\* a missing entry returned as null whatever the key
ReturnsNull(q) == Complete(q, Out(None, None, NoEntry))

\* if (!cacheEntry): 'invariant: cache entry required but not generated'
\* under a key, null without one
CacheEntryMissing(q) ==
    IF q.key # NoKey THEN Catch(q, InvariantError)
    ELSE Complete(q, Out(None, None, NoEntry))

\* renderToResponseWithComponents from the return of responseCache.get on
AfterGot(q, got, dataReq) ==
    IF got.tag = "throw" THEN Catch(q, got.err)
    ELSE IF got.tag = "null"
    THEN CacheEntryMissing(q)
    ELSE IF got.entry.value = "NOTFOUND"
    THEN IF dataReq
         THEN Complete([q EXCEPT !.status = 404], Out("ended", "notFound", got.entry))
         ELSE render404(q)
    ELSE IF got.entry.value = "REDIRECT"
    THEN IF dataReq
         THEN Complete(q, Out("json", "redirect", got.entry))
         ELSE Complete([q EXCEPT !.status = 307], Out("redirect", "Location", got.entry))
    ELSE Complete(q, Out(IF dataReq THEN "json" ELSE "html",
                         IF dataReq THEN "pageData" ELSE "html", got.entry))

AfterGet(q, got) == AfterGot([q EXCEPT !.got = got], got, isDataReq(q.page, q.in))

(***************************************************************************)
(* The response cache: responseCache.get(key, producer).                   *)
(*   cache:   key -> the stored entry                                      *)
(*   pending: key -> the production in flight for it                       *)
(***************************************************************************)
Production(owner, n, hasResolved, pathname, page, in) ==
    [owner |-> owner, n |-> n, hasResolved |-> hasResolved, pathname |-> pathname,
     page |-> page, in |-> in]

\* a numeric revalidate is good for that many seconds after production
IsStale(e) == e.revalidate.kind = "number" /\ now > e.at + e.revalidate.n

PendingFirst(key) ==
    IF key = NoKey THEN "direct"
    ELSE IF key \in DOMAIN pending THEN "join"
    ELSE IF key \in DOMAIN cache THEN (IF IsStale(cache[key]) THEN "stale" ELSE "fresh")
    ELSE "miss"

\* a reader served from the store although a production is in flight
StoreFirst(key) ==
    IF key = NoKey THEN "direct"
    ELSE IF key \in DOMAIN cache THEN (IF IsStale(cache[key]) THEN "stale" ELSE "fresh")
    ELSE IF key \in DOMAIN pending THEN "join"
    ELSE "miss"

\* a stored entry served whatever its age
NeverStale(key) ==
    IF key = NoKey THEN "direct"
    ELSE IF key \in DOMAIN pending THEN "join"
    ELSE IF key \in DOMAIN cache THEN "fresh"
    ELSE "miss"

\* a null key handled as any other key
NullAsKey(key) ==
    IF key \in DOMAIN pending THEN "join"
    ELSE IF key \in DOMAIN cache THEN (IF IsStale(cache[key]) THEN "stale" ELSE "fresh")
    ELSE "miss"

\* what get() does with a key
CacheLookup(key) == PendingFirst(key)

\* an entry the producer did not mark non-cacheable is stored
Storable(got) == got.tag = "entry" /\ got.entry.revalidate # RevalUndefined

Without(f, k) == [x \in DOMAIN f \ {k} |-> f[x]]

StoreAlways(c, k, got) ==
    IF got.tag = "entry" THEN (k :> got.entry) @@ c ELSE Without(c, k)

\* the store after a production settled: a failure leaves it as it was
Stored(c, k, got) == IF Storable(got) THEN (k :> got.entry) @@ c ELSE c

InvokesRenderer(plan) == plan \in {"render", "devFallback"}

Rendered(q, plan, pathname) ==
    IF InvokesRenderer(plan) THEN q.rendered \cup {PathStr(pathname)} ELSE q.rendered

Started(q) == [q EXCEPT !.nprod = q.nprod + 1]

\* served from the store: the caller awaits no production
Served(q) == [q EXCEPT !.joined = NoProduction]

Awaiting(q, owner, n) == [q EXCEPT !.pc = "await", !.joined = <<owner, n>>]

(***************************************************************************)
(* The routes that end in render(): the /_next/data route and the          *)
(* catch-all route, as run() reaches them through the route table.         *)
(***************************************************************************)
\* i18n.defaultLocale: handleRequest sets it on a request without a locale
LocaleOf(locales) == IF "en" \in locales THEN "en" ELSE ""

\* getRouteFromAssetPath(pathname, '.json')
getRouteFromAssetPath(path) ==
    IF StripLastJson(path) = <<"index">> THEN <<>>
    ELSE IF Len(path) > 1 /\ Head(path) = "index" THEN Tail(StripLastJson(path))
    ELSE StripLastJson(path)

\* req.url.match(/^\/_next\//) || (this.hasStaticDir && req.url.match(/^\/static\//))
IsNextOrStatic(srv, url) ==
    Len(url) >= 2 /\ (Head(url) = "_next" \/ (srv.hasStaticDir /\ Head(url) = "static"))

\* a render() that looks at the url whatever the query says
FlagIgnored(srv, url, dataReq) ==
    ~srv.minimalMode /\ IsNextOrStatic(srv, url)

\* render() hands the request to handleRequest
Redispatches(srv, url, dataReq) ==
    ~srv.minimalMode /\ ~dataReq /\ IsNextOrStatic(srv, url)

\* render(req, res, pathname, query) called by a route: the request as the
\* route hands it on; a request handed back to handleRequest from here would
\* come to this route again
Rendering(q, pathname, locale, dataReq) ==
    IF Redispatches(server, q.in.url, dataReq)
    THEN [q EXCEPT !.pc = "handleRequest", !.in.data = dataReq]
    ELSE ResolvePage([q EXCEPT !.in.pathname = pathname, !.in.locale = locale,
                               !.in.data = dataReq])

\* the /_next/data route once the build id is shifted off params.path
DataRouteOf(q, path, found) ==
    IF path = <<>> \/ StripLastJson(path) = path
    THEN render404(q)
    ELSE IF server.locales = {}
    THEN Rendering(q, getRouteFromAssetPath(path), q.in.locale, TRUE)
    ELSE IF found.detectedLocale = ""
    THEN render404([q EXCEPT !.in.locale = LocaleOf(server.locales)])
    ELSE Rendering(q, found.pathname, found.detectedLocale, TRUE)

\* a /_next/data route that takes any first segment for the build id
AnyBuildId(q, path) ==
    IF path = <<>>
    THEN render404(q)
    ELSE DataRouteOf(q, Tail(path),
                     normalizeLocalePath(getRouteFromAssetPath(Tail(path)), server.locales))

\* the /_next/data route; params.path is what follows /_next/data/
dataRoute(q, path) ==
    IF path = <<>> \/ Head(path) # BuildId
    THEN render404(q)
    ELSE DataRouteOf(q, Tail(path),
                     normalizeLocalePath(getRouteFromAssetPath(Tail(path)), server.locales))

\* pathname === '/api' || pathname.startsWith('/api/')
IsApi(pathname) == pathname # <<>> /\ Head(pathname) = "api"

\* handleApiRequest: true when there is a page for the path, whose handler
\* has then answered
ApiPageFound(pathname) ==
    \/ \E i \in 1..Len(pagesManifest) : pagesManifest[i].page = pathname
    \/ \E i \in 1..Len(dynamicRoutes) :
          IsApi(dynamicRoutes[i]) /\ RouteMatch(dynamicRoutes[i], pathname).matched

handleApiRequest(q, pathname) ==
    [q EXCEPT !.pc = "done", !.in.pathname = pathname, !.out = Out("ended", "api", NoEntry)]

\* the catch-all route: a locale in front of the path is taken off it; a
\* path under /api goes to its handler, any other path and an /api path
\* without a page to render()
catchAllRoute(q, found) ==
    IF IsApi(found.pathname) /\ ApiPageFound(found.pathname)
    THEN handleApiRequest(q, found.pathname)
    ELSE Rendering(q, found.pathname,
                   IF found.detectedLocale # "" THEN found.detectedLocale ELSE q.in.locale,
                   q.in.data)

(***************************************************************************)
(* Middleware: the chain of this.middleware, run by the catch-all          *)
(* middleware route.  A Headers object is a function from lower-case names *)
(* to the values appended under the name, in order.                        *)
(***************************************************************************)
Lower(n) ==
    CASE n = "Location" -> "location"
      [] n = "X-User" -> "x-user"
      [] OTHER -> n

NoHeaders == <<>>
HeadersHas(h, n) == Lower(n) \in DOMAIN h
HeadersSet(h, n, v) ==
    [k \in DOMAIN h \cup {Lower(n)} |-> IF k = Lower(n) THEN v ELSE h[k]]
HeadersDelete(h, n) == [k \in DOMAIN h \ {Lower(n)} |-> h[k]]

\* new Headers(init)
RECURSIVE HeadersOf(_)
HeadersOf(pairs) ==
    IF pairs = <<>> THEN NoHeaders
    ELSE LET h == HeadersOf(SubSeq(pairs, 1, Len(pairs) - 1))
             p == pairs[Len(pairs)]
         IN  HeadersSet(h, p[1], IF HeadersHas(h, p[1]) THEN h[Lower(p[1])] \o <<p[2]>>
                                 ELSE <<p[2]>>)

\* allHeaders.append(key, value) for every header of a response but the
\* continue marker
AppendAll(all, h) ==
    [k \in DOMAIN all \cup (DOMAIN h \ {"x-middleware-next"}) |->
        (IF k \in DOMAIN all THEN all[k] ELSE <<>>)
        \o (IF k \in DOMAIN h /\ k # "x-middleware-next" THEN h[k] ELSE <<>>)]

\* result.response.headers.set(key, value) for every header of allHeaders
SetAll(h, all) ==
    [k \in DOMAIN h \cup DOMAIN all |-> IF k \in DOMAIN all THEN all[k] ELSE h[k]]

Response(status, headers, body) == [status |-> status, headers |-> headers, body |-> body]
NoResponse == Response(0, NoHeaders, None)

\* what an edge function answers with: NextResponse.next(), .rewrite(),
\* .redirect(), or a response of its own
ResponseNext(pairs) == Response(200, HeadersOf(<<<<"x-middleware-next", "1">>>> \o pairs), None)
ResponseRewrite(dest) == Response(200, HeadersOf(<<<<"x-middleware-rewrite", dest>>>>), None)
ResponseRedirect(dest, status) == Response(status, HeadersOf(<<<<"Location", dest>>>>), None)
ResponseBody(status) == Response(status, NoHeaders, "body")

\* one entry of this.middleware with its edge function: present is
\* hasMiddleware(page), throws and response are what run() comes to,
\* waitUntil is how the background task of the result ends
Middleware(page, present, throws, response) ==
    [page |-> page, present |-> present, throws |-> throws, response |-> response,
     waitUntil |-> "resolves"]

\* getMiddlewareInfo(page).name
MiddlewareName(m) == PathStr(m.page)

\* middleware.match(pathname): the middleware of a folder takes the paths
\* under it
MiddlewareMatch(m, path) ==
    Len(m.page) <= Len(path) /\ SubSeq(path, 1, Len(m.page)) = m.page

\* prepareDestination: the destination of a rewrite
Destination(protocol, hostname, port, newUrl) ==
    [protocol |-> protocol, hostname |-> hostname, port |-> port, newUrl |-> newUrl]

prepareDestination(dest) ==
    CASE dest = "/about" -> Destination(FALSE, "", "", <<"about">>)
      [] dest = "http://self/about" -> Destination(TRUE, "self", "", <<"about">>)
      [] dest = "http://self:3000/about" -> Destination(TRUE, "self", "3000", <<"about">>)
      [] dest = "http://other/about" -> Destination(TRUE, "other", "", <<"about">>)
      [] OTHER -> Destination(FALSE, "", "", <<>>)

\* parsedDestination.port ? `${hostname}:${port}` : hostname
DestinationHost(d) == IF d.port # "" THEN d.hostname \o ":" \o d.port ELSE d.hostname

\* req.headers.host
RequestHost == "self"

\* the state of the loop of runMiddleware: the last result, the headers
\* gathered, the middleware invoked (their places in this.middleware)
ChainState(null, result, allHeaders, invoked, thrown) ==
    [null |-> null, result |-> result, allHeaders |-> allHeaders,
     invoked |-> invoked, thrown |-> thrown, logged |-> <<>>, unhandled |-> <<>>]

\* no handler set on any background task
NeverCaught(st, i) ==
    IF server.middleware[i].waitUntil = "rejects"
    THEN [st EXCEPT !.unhandled = Append(st.unhandled, i)]
    ELSE st

\* result.waitUntil.catch(console.error), in production only: in
\* development the task is left without a handler
WaitUntilCaught(st, i) ==
    IF server.middleware[i].waitUntil # "rejects" THEN st
    ELSE IF ~server.dev
    THEN [st EXCEPT !.logged = Append(st.logged, i)]
    ELSE [st EXCEPT !.unhandled = Append(st.unhandled, i)]

\* run() has answered: the result, its headers gathered, its task watched
Ran(st, i) ==
    WaitUntilCaught([st EXCEPT !.null = FALSE,
                               !.result = server.middleware[i].response,
                               !.allHeaders = AppendAll(st.allHeaders,
                                                        server.middleware[i].response.headers),
                               !.invoked = Append(st.invoked, i)], i)

NoChain == ChainState(TRUE, NoResponse, NoHeaders, <<>>, None)

\* a loop that goes on whatever the middleware answers
RECURSIVE RunAll(_, _, _, _)
RunAll(i, path, subrequests, st) ==
    IF i > Len(server.middleware) THEN st
    ELSE IF ~MiddlewareMatch(server.middleware[i], path) THEN RunAll(i + 1, path, subrequests, st)
    ELSE IF ~server.middleware[i].present THEN RunAll(i + 1, path, subrequests, st)
    ELSE IF MiddlewareName(server.middleware[i]) \in subrequests
    THEN RunAll(i + 1, path, subrequests,
                [st EXCEPT !.null = FALSE, !.result = ResponseNext(<<>>)])
    ELSE IF server.middleware[i].throws # None
    THEN [st EXCEPT !.invoked = Append(st.invoked, i), !.thrown = server.middleware[i].throws]
    ELSE RunAll(i + 1, path, subrequests, Ran(st, i))

\* a header x-middleware-subrequest that is not looked at
NeverListed(m, subrequests) == FALSE

\* subrequests.includes(middlewareInfo.name)
Listed(m, subrequests) == MiddlewareName(m) \in subrequests

\* the loop of runMiddleware from the i-th middleware on
RECURSIVE RunFrom(_, _, _, _)
RunFrom(i, path, subrequests, st) ==
    IF i > Len(server.middleware) THEN st
    ELSE IF ~MiddlewareMatch(server.middleware[i], path) THEN RunFrom(i + 1, path, subrequests, st)
    ELSE IF ~server.middleware[i].present THEN RunFrom(i + 1, path, subrequests, st)
    ELSE IF Listed(server.middleware[i], subrequests)
    THEN RunFrom(i + 1, path, subrequests,
                 [st EXCEPT !.null = FALSE, !.result = ResponseNext(<<>>)])
    ELSE IF server.middleware[i].throws # None
    THEN [st EXCEPT !.invoked = Append(st.invoked, i), !.thrown = server.middleware[i].throws]
    ELSE IF ~HeadersHas(server.middleware[i].response.headers, "x-middleware-next")
    THEN Ran(st, i)
    ELSE RunFrom(i + 1, path, subrequests, Ran(st, i))

\* runMiddleware: the result carries the headers of all that ran
runMiddleware(path, subrequests) ==
    LET st == RunFrom(1, path, subrequests, NoChain)
    IN  IF st.null \/ st.thrown # None THEN st
        ELSE [st EXCEPT !.result.headers = SetAll(st.result.headers, st.allHeaders)]

\* what the catch-all middleware route came to for a request
Mw(outcome, finished, invoked) ==
    [outcome |-> outcome, finished |-> finished, invoked |-> invoked]

\* the continue marker taken off and nothing else
Unmarked(h) == HeadersDelete(h, "x-middleware-next")

\* the refresh mark set and the continue marker left on
MarkerKept(h) ==
    IF /\ ~HeadersHas(h, "x-middleware-rewrite")
       /\ ~HeadersHas(h, "x-middleware-next")
       /\ ~HeadersHas(h, "Location")
    THEN HeadersSet(h, "x-middleware-refresh", <<"1">>)
    ELSE h

\* the headers of the result as the route completes them: a response that
\* neither continues nor rewrites nor redirects is a refresh, and the
\* continue marker is taken off
Marked(h) ==
    HeadersDelete(IF /\ ~HeadersHas(h, "x-middleware-rewrite")
                     /\ ~HeadersHas(h, "x-middleware-next")
                     /\ ~HeadersHas(h, "Location")
                  THEN HeadersSet(h, "x-middleware-refresh", <<"1">>)
                  ELSE h,
                  "x-middleware-next")

\* res.setHeader(key, value) for every header but content-encoding
Written(resHeaders, h) ==
    [k \in DOMAIN resHeaders \cup (DOMAIN h \ {"content-encoding"}) |->
        IF k \in DOMAIN h THEN h[k] ELSE resHeaders[k]]

\* result.response.headers.get(name)
HeadersGet(h, n) == IF Len(h[Lower(n)]) = 1 THEN h[Lower(n)][1] ELSE "joined"

\* the route ends the response itself
Terminal(q, outcome, invoked, out) ==
    [q EXCEPT !.pc = "done", !.out = out, !.mw = Mw(outcome, TRUE, invoked)]

\* a rewrite that is proxied by the name of the host alone
ByHostname(q, d, invoked) ==
    IF d.protocol /\ d.hostname # RequestHost
    THEN Terminal(q, "proxy", invoked, Out("ended", "proxied", NoEntry))
    ELSE [q EXCEPT !.in.hasRewrote = TRUE, !.in.rewrote = d.newUrl,
                   !.mw = Mw("rewrite", FALSE, invoked)]

\* x-middleware-rewrite: another host is proxied, a path of this host is
\* the new pathname of the request
Rewritten(q, d, invoked) ==
    IF d.protocol /\ DestinationHost(d) # RequestHost
    THEN Terminal(q, "proxy", invoked, Out("ended", "proxied", NoEntry))
    ELSE [q EXCEPT !.in.hasRewrote = TRUE, !.in.rewrote = d.newUrl,
                   !.in.locale = IF normalizeLocalePath(d.newUrl, server.locales).detectedLocale # ""
                                 THEN normalizeLocalePath(d.newUrl, server.locales).detectedLocale
                                 ELSE q.in.locale,
                   !.mw = Mw("rewrite", FALSE, invoked)]

\* const location = headers.get('Location'); if (location)
HasLocation(h) == HeadersHas(h, "Location") /\ HeadersGet(h, "Location") # ""

\* a route that looks for the rewrite before the Location
RewriteFirst(q, result, h, invoked) ==
    IF q.in.preflight
    THEN Terminal([q EXCEPT !.status = 200], "preflight", invoked, Out("ended", None, NoEntry))
    ELSE IF HeadersHas(h, "x-middleware-rewrite")
    THEN Rewritten([q EXCEPT !.status = result.status],
                   prepareDestination(HeadersGet(h, "x-middleware-rewrite")), invoked)
    ELSE IF HasLocation(h)
    THEN Terminal([q EXCEPT !.status = result.status], "redirect", invoked,
                  Out("redirect", "Location", NoEntry))
    ELSE [q EXCEPT !.status = result.status, !.mw = Mw("next", FALSE, invoked)]

\* the catch-all middleware route from the preflight test on; h is the
\* headers of the result, written to res already
Answered(q, result, h, invoked) ==
    IF q.in.preflight
    THEN Terminal([q EXCEPT !.status = 200], "preflight", invoked, Out("ended", None, NoEntry))
    ELSE IF HasLocation(h)
    THEN Terminal([q EXCEPT !.status = result.status,
                            !.headers = IF result.status = 308
                                        THEN HeadersSet(q.headers, "Refresh", h["location"])
                                        ELSE q.headers],
                  "redirect", invoked, Out("redirect", "Location", NoEntry))
    ELSE IF HeadersHas(h, "x-middleware-rewrite")
    THEN Rewritten([q EXCEPT !.status = result.status],
                   prepareDestination(HeadersGet(h, "x-middleware-rewrite")), invoked)
    ELSE IF HeadersHas(h, "x-middleware-refresh")
    THEN Terminal([q EXCEPT !.status = result.status], "refresh", invoked,
                  Out("ended", result.body, NoEntry))
    ELSE [q EXCEPT !.status = result.status, !.mw = Mw("next", FALSE, invoked)]

\* the catch-all middleware route once some middleware matches; st is what
\* runMiddleware came to
AfterChain(q, st) ==
    IF st.thrown = "ENOENT"
    THEN [render404(q) EXCEPT !.mw = Mw("not_found", TRUE, st.invoked)]
    ELSE IF st.thrown # None
    THEN [renderErrorToResponse([q EXCEPT !.status = 500]) EXCEPT
             !.mw = Mw("error", TRUE, st.invoked)]
    ELSE IF st.null
    THEN [render404(q) EXCEPT !.mw = Mw("not_found", TRUE, st.invoked)]
    ELSE Answered([q EXCEPT !.headers = Written(q.headers, Marked(st.result.headers))],
                  st.result, Marked(st.result.headers), st.invoked)

\* the pathname the route table hands to the route, rewritten or not
CurrentUrl(q) == IF q.in.hasRewrote THEN q.in.rewrote ELSE q.in.url

\* getRequestMeta(req, '__NEXT_INIT_URL'): req.url as handleRequest found it
InitUrl(q) == q.in.url

\* the catch-all middleware route; path is the pathname of the initial url
catchAllMiddleware(q, path) ==
    IF ~\E i \in 1..Len(server.middleware) : MiddlewareMatch(server.middleware[i], path)
    THEN [q EXCEPT !.mw = Mw("no_match", FALSE, <<>>)]
    ELSE AfterChain([q EXCEPT !.chainRuns = q.chainRuns + 1,
                              !.waitUntil = [logged |-> runMiddleware(path, q.in.subrequests).logged,
                                            unhandled |-> runMiddleware(path, q.in.subrequests).unhandled]],
                    runMiddleware(path, q.in.subrequests))

\* the catch-all route takes the request that no route has finished, under
\* its new pathname if it has one
ToCatchAll(q) ==
    IF q.mw.finished THEN q
    ELSE catchAllRoute(q, normalizeLocalePath(IF q.in.hasRewrote THEN q.in.rewrote ELSE q.in.url,
                                              server.locales))

\* the route table after the middleware catch-all: a route that is not
\* finished and gives a new pathname makes matching start again from the
\* top with that path, where the middleware catch-all, which takes every
\* path and looks at the initial url, is met once more; it gives the path
\* the request has by then, and matching goes on to the catch-all route
AfterMiddleware(q) ==
    IF ~q.mw.finished /\ q.mw.outcome = "rewrite"
    THEN ToCatchAll(catchAllMiddleware(q, normalizeLocalePath(InitUrl(q), server.locales).pathname))
    ELSE ToCatchAll(q)

\* the route table decodes the segments of the path it matches, and
\* throws DecodeError for one that is not valid percent-encoding
DecodeFails(path) == \E i \in 1..Len(path) : path[i] \in Malformed

\* a route table that hands every path on undecoded
runUndecoded(q) ==
    IF Len(q.in.url) >= 2 /\ SubSeq(q.in.url, 1, 2) = <<"_next", "data">>
    THEN dataRoute(q, SubSeq(q.in.url, 3, Len(q.in.url)))
    ELSE IF server.minimalMode
    THEN catchAllRoute(q, normalizeLocalePath(q.in.url, server.locales))
    ELSE AfterMiddleware(catchAllMiddleware(q, normalizeLocalePath(q.in.url, server.locales).pathname))

\* run() answers the route table's DecodeError with 400 and the /_error
\* page
run(q) ==
    IF DecodeFails(q.in.url)
    THEN renderErrorToResponse([q EXCEPT !.status = 400])
    ELSE IF Len(q.in.url) >= 2 /\ SubSeq(q.in.url, 1, 2) = <<"_next", "data">>
    THEN dataRoute(q, SubSeq(q.in.url, 3, Len(q.in.url)))
    ELSE IF Len(q.in.url) >= 1 /\ Head(q.in.url) = "_next"
    THEN render404(q)
    ELSE IF server.hasStaticDir /\ Len(q.in.url) >= 1 /\ Head(q.in.url) = "static"
    THEN render404(q)
    ELSE IF server.minimalMode
    THEN catchAllRoute(q, normalizeLocalePath(q.in.url, server.locales))
    ELSE AfterMiddleware(catchAllMiddleware(q, normalizeLocalePath(InitUrl(q), server.locales).pathname))

\* a request comes through handleRequest and run(), or a custom server
\* calls render() with the pathname of its choice
\* a handleRequest that hands every request to the route table
Routed(q) == run(q)

\* handleRequest: a path under /api behind a locale that was taken off the
\* url is answered with 404 at once; every other request goes to run()
handleRequest(q) ==
    IF /\ normalizeLocalePath(q.in.url, server.locales).detectedLocale # ""
       /\ IsApi(normalizeLocalePath(q.in.url, server.locales).pathname)
    THEN render404(q)
    ELSE run(q)

Dispatch(q) ==
    IF ~q.in.direct THEN handleRequest(q)
    ELSE IF Redispatches(server, q.in.url, q.in.data)
    THEN handleRequest([q EXCEPT !.hops = q.hops + 1])
    ELSE ResolvePage(q)

(***************************************************************************)
(* Actions.                                                                *)
(***************************************************************************)
Arrived(in) == [IdleReq EXCEPT !.in = in, !.status = 200, !.dynHTML = ~in.bot]

\* handleRequest -> run -> render -> pipe(renderToResponse): a request runs
\* to its first call of responseCache.get, or to its response
renderToResponse(r, in) ==
    /\ reqs[r].pc = "idle"
    /\ \A p \in Reqs : p < r => reqs[p].pc # "idle"
    /\ in \in workload
    /\ reqs' = [reqs EXCEPT ![r] = Dispatch(Arrived(in))]
    /\ UNCHANGED <<server, pagesManifest, dynamicRoutes, now, cache, pending, workload, renderer>>

\* get() on a null key: the caller runs its own producer
GetDirect(r, q) ==
    /\ reqs' = [reqs EXCEPT ![r] = [Started(q) EXCEPT !.pc = "produce",
                                                      !.joined = <<r, q.nprod + 1>>]]
    /\ UNCHANGED <<cache, pending>>

\* get() while a production is in flight: the caller awaits that production
GetJoin(r, q, p) ==
    /\ reqs' = [reqs EXCEPT ![r] = Awaiting(q, p.owner, p.n)]
    /\ UNCHANGED <<cache, pending>>

\* get() on a stored entry good for now: the caller is served from the store
GetFresh(r, q, e) ==
    /\ reqs' = [reqs EXCEPT ![r] = AfterGet(Served(q), GotEntry(e))]
    /\ UNCHANGED <<cache, pending>>

\* get() on a stored entry past its revalidate: the caller is served the
\* entry and one production is started behind it
GetStale(r, q, e) ==
    /\ reqs' = [reqs EXCEPT ![r] = AfterGet(Served(Started(q)), GotEntry(e))]
    /\ pending' = (q.key :> Production(r, q.nprod + 1, TRUE, q.pathname, q.page, q.in))
                      @@ pending
    /\ UNCHANGED cache

\* get() on a miss: the caller starts the production and awaits it
GetMiss(r, q) ==
    /\ reqs' = [reqs EXCEPT ![r] = Awaiting(Started(q), r, q.nprod + 1)]
    /\ pending' = (q.key :> Production(r, q.nprod + 1, FALSE, q.pathname, q.page, q.in))
                      @@ pending
    /\ UNCHANGED cache

GetBy(r, q, how) ==
    CASE how = "direct" -> GetDirect(r, q)
      [] how = "join" -> GetJoin(r, q, pending[q.key])
      [] how = "fresh" -> GetFresh(r, q, cache[q.key])
      [] how = "stale" -> GetStale(r, q, cache[q.key])
      [] how = "miss" -> GetMiss(r, q)

\* a request calls responseCache.get with its key
responseCacheGet(r) ==
    /\ reqs[r].pc = "get"
    /\ GetBy(r, [reqs[r] EXCEPT !.how = CacheLookup(reqs[r].key)], CacheLookup(reqs[r].key))
    /\ UNCHANGED <<server, pagesManifest, dynamicRoutes, now, workload, renderer>>

\* every caller awaiting production <<owner, n>> of key k gets its result
Settled(q, r, k, p, plan, got) ==
    IF q.pc = "await" /\ q.key = k /\ q.joined = <<p.owner, p.n>>
    THEN AfterGet(IF r = p.owner THEN [q EXCEPT !.rendered = Rendered(q, plan, p.pathname)]
                  ELSE q, got)
    ELSE IF r = p.owner THEN [q EXCEPT !.rendered = Rendered(q, plan, p.pathname)]
    ELSE q

Settle(k, p, plan, got) ==
    /\ cache' = Stored(cache, k, got)
    /\ pending' = Without(pending, k)
    /\ reqs' = [r \in Reqs |-> Settled(reqs[r], r, k, p, plan, got)]

SettlePlanned(k, p, plan, o) ==
    Settle(k, p, plan,
           Produce(plan, o, p.pathname, isDataReq(p.page, p.in), p.owner, p.n, now))

\* the producer of the production in flight for key k runs to its end;
\* o is what the renderer reports if the producer invokes it
producer(k, o) ==
    /\ k \in DOMAIN pending
    /\ InvokesRenderer(ProducerPlan(server, pending[k].pathname, pending[k].page,
                                    pending[k].in, k, pending[k].hasResolved,
                                    isResSent(reqs[pending[k].owner])))
           = (o # NoOutcome)
    /\ CanReport(pending[k].page, o)
    /\ SettlePlanned(k, pending[k],
                     ProducerPlan(server, pending[k].pathname, pending[k].page,
                                  pending[k].in, k, pending[k].hasResolved,
                                  isResSent(reqs[pending[k].owner])), o)
    /\ UNCHANGED <<server, pagesManifest, dynamicRoutes, now, workload, renderer>>

DirectDone(r, q, plan, o) ==
    reqs' = [reqs EXCEPT ![r] =
                AfterGet([q EXCEPT !.rendered = Rendered(q, plan, q.pathname)],
                         Produce(plan, o, q.pathname, isDataReq(q.page, q.in), r, q.nprod, now))]

\* the producer of a caller with a null key runs to its end
producerDirect(r, o) ==
    /\ reqs[r].pc = "produce"
    /\ o # NoOutcome
    /\ CanReport(reqs[r].page, o)
    /\ DirectDone(r, reqs[r],
                  ProducerPlan(server, reqs[r].pathname, reqs[r].page, reqs[r].in,
                               NoKey, FALSE, isResSent(reqs[r])), o)
    /\ UNCHANGED <<server, pagesManifest, dynamicRoutes, now, cache, pending, workload, renderer>>

\* a second passes
Tick ==
    /\ now < MaxTime
    /\ now' = now + 1
    /\ UNCHANGED <<server, pagesManifest, dynamicRoutes, cache, pending, reqs, workload, renderer>>

Next ==
    \/ \E x \in Reqs \X workload : renderToResponse(x[1], x[2])
    \/ \E r \in Reqs : responseCacheGet(r)
    \/ \E x \in (DOMAIN pending) \X (renderer \cup {NoOutcome}) : producer(x[1], x[2])
    \/ \E x \in Reqs \X renderer : producerDirect(x[1], x[2])
    \/ Tick

(***************************************************************************)
(* Construction: the server's options, its pages, the prerendered paths.   *)
(***************************************************************************)
Server(dev, minimalMode, locales) ==
    [dev |-> dev, minimalMode |-> minimalMode, locales |-> locales,
     isLikeServerless |-> FALSE, documentGetInitialProps |-> FALSE, middleware |-> <<>>,
     hasStaticDir |-> FALSE]

\* a blog: a dynamic page with a sibling literal page and a catch-all
BlogPages(fallback, kind404) ==
    <<Page(<<"post", "[id]">>, "ssg", fallback),
      Page(<<"post", "create">>, "ssg", None),
      Page(<<"[...all]">>, "ssg", "null"),
      Page(<<"404">>, kind404, None),
      Page(<<"_error">>, "gip", None)>>

\* the blog without its catch-all page
PostPages(fallback, kind404) ==
    <<Page(<<"post", "[id]">>, "ssg", fallback),
      Page(<<"post", "create">>, "ssg", None),
      Page(<<"404">>, kind404, None),
      Page(<<"_error">>, "gip", None)>>

Reverse(m) == [i \in 1..Len(m) |-> m[Len(m) + 1 - i]]

Prerendered(pathname, at) ==
    Entry("PAGE", "render", Reval("number", 1), pathname, FALSE, NoReq, 0, at)

\* the build ended a second before the server started
BuildTime == 0 - 1

\* the paths prerendered at build time are in the store from the start
BuildCache(m) ==
    ("/post/1" :> Prerendered(<<"post", "[id]">>, BuildTime))
        @@ ("/post/create" :> Prerendered(<<"post", "create">>, BuildTime))

\* GET <path>
PageRequest(path) ==
    [NoInput EXCEPT !.url = path]

JsonOf(seg) == seg \o ".json"

\* GET /_next/data/<buildId>/<path>.json; the page / is asked for as index
DataRequest(path) ==
    [NoInput EXCEPT
        !.url = IF path = <<>> THEN <<"_next", "data", BuildId, "index.json">>
                ELSE <<"_next", "data", BuildId>> \o SubSeq(path, 1, Len(path) - 1)
                         \o <<JsonOf(path[Len(path)])>>]

\* the requests of one run: for one path as a page and as data, for one path
\* with and without preview mode, for a prerendered path
ConcurrentWorkloads ==
    {{PageRequest(<<"post", "2">>), DataRequest(<<"post", "2">>)},
     {PageRequest(<<"post", "2">>), [PageRequest(<<"post", "2">>) EXCEPT !.preview = TRUE]},
     {PageRequest(<<"post", "1">>)}}

Init ==
    /\ server = Server(FALSE, FALSE, {})
    /\ pagesManifest \in {PostPages(f, "html") : f \in {"string", "null", "false"}}
    /\ dynamicRoutes = getDynamicRoutes(pagesManifest, server.locales)
    /\ now = 0
    /\ cache = BuildCache(pagesManifest)
    /\ pending = <<>>
    /\ reqs = [r \in Reqs |-> IdleReq]
    /\ workload \in ConcurrentWorkloads
    /\ renderer \in Renderers

Spec == Init /\ [][Next]_vars

(***************************************************************************)
(* A second construction, for the cache key: one dynamic page, statically  *)
(* generated status pages, with and without i18n and minimal mode.         *)
(***************************************************************************)
SlugPages(kind404) ==
    <<Page(<<"[slug]">>, "ssg", "null"),
      Page(<<"404">>, kind404, None),
      Page(<<"500">>, "ssg", None),
      Page(<<"_error">>, "gip", None)>>

KeyWorkload(locales) ==
    {[in EXCEPT !.locale = LocaleOf(locales)] :
        in \in {[PageRequest(<<"about">>) EXCEPT !.amp = TRUE],
                PageRequest(<<"about.amp">>),
                PageRequest(<<"%61">>),
                [PageRequest(<<"404">>) EXCEPT !.preview = TRUE]}}

InitKey ==
    /\ server \in {Server(FALSE, minimal, locales) :
                      minimal \in BOOLEAN, locales \in {{}, {"en"}}}
    /\ pagesManifest = SlugPages("ssg")
    /\ dynamicRoutes = getDynamicRoutes(pagesManifest, server.locales)
    /\ now = 0
    /\ cache = <<>>
    /\ pending = <<>>
    /\ reqs = [r \in Reqs |-> IdleReq]
    /\ workload = KeyWorkload(server.locales)
    /\ renderer = PageOrThrow

\* the requests of one second: no stored entry grows stale meanwhile
NextAtOnce ==
    \/ \E x \in Reqs \X workload : renderToResponse(x[1], x[2])
    \/ \E r \in Reqs : responseCacheGet(r)
    \/ \E x \in (DOMAIN pending) \X (renderer \cup {NoOutcome}) : producer(x[1], x[2])
    \/ \E x \in Reqs \X renderer : producerDirect(x[1], x[2])

SpecKey == InitKey /\ [][NextAtOnce]_vars

(***************************************************************************)
(* A third construction, for the dispatch of a request to a page: the blog *)
(* with and without its catch-all page, its pages declared in either       *)
(* order, in production with and without minimal mode, and in development. *)
(***************************************************************************)
DispatchManifests ==
    {BlogPages("false", "html"), Reverse(BlogPages("string", "html")),
     PostPages("string", "html"), PostPages("false", "html")}

DispatchWorkloads ==
    {{PageRequest(<<"post", "create">>), PageRequest(<<"post", "2">>)},
     {PageRequest(<<"post", "2">>), DataRequest(<<"post", "2">>)},
     {[PageRequest(<<"post", "2">>) EXCEPT !.preview = TRUE],
      [PageRequest(<<"post", "2">>) EXCEPT !.bot = TRUE]},
     {[PageRequest(<<"post", "2">>) EXCEPT !.bubble = TRUE],
      [DataRequest(<<"post", "2">>) EXCEPT !.bubble = TRUE]},
     {PageRequest(<<"post", "2">>), [PageRequest(<<"post", "2">>) EXCEPT !.bot = TRUE]}}

InitDispatch ==
    /\ server \in {Server(FALSE, minimal, {}) : minimal \in BOOLEAN} \cup {Server(TRUE, FALSE, {})}
    /\ pagesManifest \in DispatchManifests
    /\ dynamicRoutes = getDynamicRoutes(pagesManifest, server.locales)
    /\ now = 0
    /\ cache = BuildCache(pagesManifest)
    /\ pending = <<>>
    /\ reqs = [r \in Reqs |-> IdleReq]
    /\ workload \in IF server.dev THEN {{PageRequest(<<"post", "2">>), DataRequest(<<"post", "2">>)}}
                    ELSE DispatchWorkloads
    /\ renderer \in IF server.minimalMode THEN {PageOrThrow} ELSE {PageOrThrow, PageOrNotFound}

SpecDispatch == InitDispatch /\ [][NextAtOnce]_vars

(***************************************************************************)
(* A fourth construction, for data requests and malformed paths: the page  *)
(* /, a page /about of each kind and a dynamic page that blocks, with and  *)
(* without i18n.                                                           *)
(***************************************************************************)
DataPages(kind) ==
    <<Page(<<>>, "ssg", None),
      Page(<<"about">>, kind, None),
      Page(<<"post", "[id]">>, "ssg", "null"),
      Page(<<"404">>, "html", None),
      Page(<<"_error">>, "gip", None),
      Page(<<"api", "hello">>, "api", None)>>

\* render(req, res, pathname) called by a custom server for the url
DirectRequest(pathname, url) ==
    [NoInput EXCEPT !.pathname = pathname, !.url = url, !.direct = TRUE]

\* a page and its data, for a page of the kind in question
AboutWorkloads(p) ==
    {{PageRequest(p \o <<"about">>), DataRequest(p \o <<"about">>)}}

\* the index page, a dynamic page, data urls that are not to be served,
\* paths with a segment that does not decode
OtherWorkloads(p) ==
    {{PageRequest(p), DataRequest(p)},
     {PageRequest(p \o <<"post", "2">>), DataRequest(p \o <<"post", "2">>)},
     {PageRequest(<<"_next", "data", "nope">> \o p \o <<"about.json">>),
      PageRequest(<<"_next", "data", BuildId, "about.json">>)},
     {PageRequest(<<"_next", "data", BuildId>> \o p \o <<"about">>),
      PageRequest(<<"_next", "data">>)},
     {PageRequest(<<"%E0%A4%A">>), DataRequest(p \o <<"post", "%E0%A4%A">>)},
     {DirectRequest(<<"about">>, <<"%E0%A4%A">>),
      [DirectRequest(<<"about">>, <<"%E0%A4%A">>) EXCEPT !.preview = TRUE]},
     {DirectRequest(<<"post", "%E0%A4%A">>, <<"post", "%E0%A4%A">>),
      PageRequest(p \o <<"post", "%E0%A4%A">>)},
     {PageRequest(p \o <<"api", "hello">>), PageRequest(<<"api", "hello">>),
      PageRequest(p \o <<"api">>)}}

DataWorkloads(kind, p) ==
    IF kind = "ssg" THEN AboutWorkloads(p) \cup OtherWorkloads(p) ELSE AboutWorkloads(p)

InitData ==
    /\ server \in {Server(FALSE, FALSE, locales) : locales \in {{}, {"en"}}}
    /\ pagesManifest \in {DataPages(kind) : kind \in {"ssg", "ssp", "gip", "html"}}
    /\ dynamicRoutes = getDynamicRoutes(pagesManifest, server.locales)
    /\ now = 0
    /\ cache = <<>>
    /\ pending = <<>>
    /\ reqs = [r \in Reqs |-> IdleReq]
    /\ workload \in {{[in EXCEPT !.locale = LocaleOf(server.locales)] : in \in w} :
                        w \in DataWorkloads(pagesManifest[2].kind,
                                            LocaleSegs(LocaleOf(server.locales)))}
    /\ renderer \in IF pagesManifest[2].kind \in {"ssg", "ssp"} THEN Renderers ELSE {PageOrThrow}

SpecData == InitData /\ [][NextAtOnce]_vars

(***************************************************************************)
(* A fifth construction, for the middleware: a middleware of the root and  *)
(* one of /post, each with the answers an edge function may give, absent   *)
(* or failing.                                                             *)
(***************************************************************************)
RootMiddleware ==
    {Middleware(<<>>, TRUE, None, res) :
        res \in {ResponseNext(<<>>), ResponseNext(<<<<"X-User", "a">>>>),
                 ResponseRewrite("/about"), ResponseRewrite("http://other/about"),
                 ResponseRewrite("http://self/about"), ResponseRewrite("http://self:3000/about"),
                 ResponseRedirect("/about", 307), ResponseRedirect("/about", 308),
                 ResponseBody(200)}}
    \cup {Middleware(<<>>, FALSE, None, NoResponse),
          Middleware(<<>>, TRUE, "ENOENT", NoResponse),
          Middleware(<<>>, TRUE, "Error", NoResponse),
          [Middleware(<<>>, TRUE, None, ResponseNext(<<>>)) EXCEPT !.waitUntil = "rejects"]}

PostMiddleware ==
    {Middleware(<<"post">>, TRUE, None, res) :
        res \in {ResponseNext(<<<<"x-user", "b">>>>), ResponseRewrite("/about"),
                 ResponseBody(200),
                 Response(307, HeadersOf(<<<<"Location", "/about">>,
                                           <<"x-middleware-rewrite", "/about">>>>), None),
                 Response(307, HeadersOf(<<<<"Location", "">>,
                                           <<"x-middleware-rewrite", "/about">>>>), None)}}
    \cup {Middleware(<<"post">>, FALSE, None, NoResponse)}

MiddlewareChains ==
    {<<a, b>> : <<a, b>> \in RootMiddleware \X PostMiddleware}
    \cup {<<b>> : b \in PostMiddleware}

MiddlewareWorkloads ==
    {{PageRequest(<<"post", "2">>), PageRequest(<<"about">>)},
     {[PageRequest(<<"post", "2">>) EXCEPT !.preflight = TRUE],
      [PageRequest(<<"post", "2">>) EXCEPT !.subrequests = {"/"}]},
     {[PageRequest(<<"post", "2">>) EXCEPT !.hasRewrote = TRUE, !.rewrote = <<>>]}}

InitMiddleware ==
    /\ server \in {[Server(dev, FALSE, {}) EXCEPT !.middleware = chain] :
                      <<dev, chain>> \in BOOLEAN \X MiddlewareChains}
    /\ pagesManifest = DataPages("ssp")
    /\ dynamicRoutes = getDynamicRoutes(pagesManifest, server.locales)
    /\ now = 0
    /\ cache = <<>>
    /\ pending = <<>>
    /\ reqs = [r \in Reqs |-> IdleReq]
    /\ workload \in MiddlewareWorkloads
    /\ renderer = PageOrThrow

SpecMiddleware == InitMiddleware /\ [][NextAtOnce]_vars

(***************************************************************************)
(* A sixth construction, for the error pages: a build with or without a    *)
(* /404, a /500 and an /_error page, in production, in minimal mode and in *)
(* development.                                                            *)
(***************************************************************************)
Optional(segs, kind) == IF kind = None THEN <<>> ELSE <<Page(segs, kind, None)>>

ErrorPages(kind404, kind500, kindError) ==
    <<Page(<<"about">>, "ssp", None), Page(<<"post", "[id]">>, "ssg", "false")>>
        \o Optional(<<"404">>, kind404) \o Optional(<<"500">>, kind500)
        \o Optional(<<"_error">>, kindError)

ErrorManifests ==
    {ErrorPages(k[1], k[2], k[3]) :
        k \in {None, "html", "ssg"} \X {None, "ssg"} \X {None, "gip"}}

\* a page that may throw and a page that is not there, a path without
\* fallback as a page and as data, a path that does not decode, a custom
\* server that calls render() for a url under /_next/ or /static/
ErrorWorkloads ==
    {{PageRequest(<<"about">>), PageRequest(<<"nope">>)},
     {[PageRequest(<<"post", "2">>) EXCEPT !.bubble = TRUE],
      [DataRequest(<<"post", "2">>) EXCEPT !.bubble = TRUE]},
     {PageRequest(<<"%E0%A4%A">>), DataRequest(<<"about">>)},
     {DirectRequest(<<"about">>, <<"_next", "data", BuildId, "about.json">>),
      [DirectRequest(<<"about">>, <<"_next", "data", BuildId, "about.json">>)
          EXCEPT !.data = TRUE]},
     {DirectRequest(<<"about">>, <<"static", "x">>),
      DirectRequest(<<"about">>, <<"_next", "static", "x">>)}}

InitError ==
    /\ server \in {Server(FALSE, FALSE, {}), Server(FALSE, TRUE, {}), Server(TRUE, FALSE, {}),
                   [Server(FALSE, FALSE, {}) EXCEPT !.hasStaticDir = TRUE]}
    /\ pagesManifest \in ErrorManifests
    /\ dynamicRoutes = getDynamicRoutes(pagesManifest, server.locales)
    /\ now = 0
    /\ cache = <<>>
    /\ pending = <<>>
    /\ reqs = [r \in Reqs |-> IdleReq]
    /\ workload \in ErrorWorkloads
    /\ renderer \in {PageOrThrow, PageOrNotFound}

SpecError == InitError /\ [][NextAtOnce]_vars

(***************************************************************************)
(* Properties of the response cache under concurrent requests (Spec).      *)
(***************************************************************************)
\* the key renderToResponseWithComponents computes for the page a request is at
KeyOf(q) == ssgCacheKey(server, q.pathname, q.page, q.in, q.dynHTML)

Waiting(q) == q.pc \in {"await", "produce"}
ProductionId(p) == <<p.owner, p.n>>
IsGetStep(r) == reqs[r].pc = "get" /\ reqs'[r] # reqs[r]

\* C1: requests with the same non-null cache key that are in flight at the
\* same time all wait for one and the same production (the producer runs
\* once for them), and callers of one production are handed the same entry.
C1_OneProductionPerKey ==
    \A r1, r2 \in Reqs :
        /\ (/\ Waiting(reqs[r1]) /\ Waiting(reqs[r2])
            /\ KeyOf(reqs[r1]) # NoKey
            /\ KeyOf(reqs[r1]) = KeyOf(reqs[r2]))
           => /\ reqs[r1].joined = reqs[r2].joined
              /\ KeyOf(reqs[r1]) \in DOMAIN pending
              /\ ProductionId(pending[KeyOf(reqs[r1])]) = reqs[r1].joined
        /\ (/\ reqs[r1].joined = reqs[r2].joined
            /\ reqs[r1].joined # NoProduction
            /\ reqs[r1].got # GotNothing /\ reqs[r2].got # GotNothing
            /\ ~Waiting(reqs[r1]) /\ ~Waiting(reqs[r2]))
           => reqs[r1].got = reqs[r2].got

\* two callers were handed the entry of one production, made by one of them
C1_Witness ==
    \E r1, r2 \in Reqs :
        /\ r1 # r2
        /\ reqs[r1].pc = "done" /\ reqs[r2].pc = "done"
        /\ reqs[r1].joined = <<r1, 1>> /\ reqs[r2].joined = <<r1, 1>>
        /\ reqs[r1].key # NoKey /\ reqs[r1].key = reqs[r2].key
        /\ reqs[r1].got.tag = "entry" /\ reqs[r2].got = reqs[r1].got
        /\ reqs[r1].nprod = 1 /\ reqs[r2].nprod = 0

\* C2: a caller of get() for a key whose production is in flight is made to
\* await that production: it is handed nothing from the store, it starts no
\* production, and what it is handed in the end is that production's result.
C2_ReaderObservesThatProduction ==
    [][\A r \in Reqs :
          /\ (IsGetStep(r) /\ reqs[r].key \in DOMAIN pending)
             => /\ reqs'[r].pc = "await"
                /\ reqs'[r].joined = ProductionId(pending[reqs[r].key])
                /\ reqs'[r].got = reqs[r].got
                /\ reqs'[r].nprod = reqs[r].nprod
                /\ pending' = pending
          /\ (reqs[r].pc = "await" /\ reqs'[r].pc # "await")
             => /\ reqs[r].key \in DOMAIN pending
                /\ reqs[r].key \notin DOMAIN pending'
                /\ reqs[r].joined = ProductionId(pending[reqs[r].key])
                /\ reqs'[r].got.tag = "entry"
                      => /\ <<reqs'[r].got.entry.by, reqs'[r].got.entry.n>> = reqs[r].joined
                         /\ reqs'[r].got.entry.at = now]_vars

\* a reader whose key was both stored and in production was handed the entry
\* of the production another request had started
C2_Witness ==
    \E r \in Reqs :
        /\ reqs[r].pc = "done"
        /\ reqs[r].joined # NoProduction /\ reqs[r].joined[1] # r
        /\ reqs[r].got.tag = "entry"
        /\ <<reqs[r].got.entry.by, reqs[r].got.entry.n>> = reqs[r].joined
        /\ reqs[reqs[r].joined[1]].got.tag = "entry"
        /\ reqs[reqs[r].joined[1]].got.entry.by = NoReq

\* C3: a caller of get() for a key whose stored entry is past its numeric
\* revalidate is handed that entry and starts one production with
\* hasResolved = true when none is in flight; while that production is in
\* flight no other caller is handed the prior entry or starts a production.
C3_OneBackgroundRegeneration ==
    [][\A r \in Reqs :
          (/\ IsGetStep(r)
           /\ reqs[r].key \in DOMAIN cache
           /\ IsStale(cache[reqs[r].key]))
          => IF reqs[r].key \in DOMAIN pending
             THEN /\ pending' = pending
                  /\ reqs'[r].pc = "await"
                  /\ reqs'[r].nprod = reqs[r].nprod
             ELSE /\ reqs'[r].got = GotEntry(cache[reqs[r].key])
                  /\ reqs'[r].nprod = reqs[r].nprod + 1
                  /\ DOMAIN pending' = DOMAIN pending \cup {reqs[r].key}
                  /\ pending'[reqs[r].key].hasResolved = TRUE
                  /\ ProductionId(pending'[reqs[r].key]) = <<r, reqs[r].nprod + 1>>
                  /\ \A k \in DOMAIN pending : pending'[k] = pending[k]
                  /\ cache' = cache]_vars

\* a request was answered from a stale entry and its regeneration is in
\* flight, with a second request awaiting it
C3_Witness ==
    \E r1, r2 \in Reqs :
        /\ r1 # r2
        /\ reqs[r1].pc = "done" /\ reqs[r1].key \in DOMAIN pending
        /\ reqs[r1].key \in DOMAIN cache
        /\ IsStale(cache[reqs[r1].key])
        /\ reqs[r1].out.entry = cache[reqs[r1].key]
        /\ pending[reqs[r1].key].hasResolved
        /\ pending[reqs[r1].key].owner = r1
        /\ reqs[r2].pc = "await" /\ reqs[r2].joined = <<r1, 1>>

\* C4: a stored entry goes away or changes only when a production for its
\* key ends with a new entry, which replaces it; a production that fails
\* leaves the entry in place, and the request that started a background
\* regeneration is not touched by its end.
C4_StaleKeptOnFailure ==
    [][/\ \A k \in DOMAIN cache :
             /\ k \in DOMAIN cache'
             /\ cache'[k] # cache[k]
                => /\ k \in DOMAIN pending /\ k \notin DOMAIN pending'
                   /\ <<cache'[k].by, cache'[k].n>> = ProductionId(pending[k])
                   /\ cache'[k].at = now
                   /\ cache'[k].value # None
       /\ \A k \in DOMAIN pending :
             (pending[k].hasResolved /\ k \notin DOMAIN pending')
                => [reqs'[pending[k].owner] EXCEPT !.rendered = {}]
                      = [reqs[pending[k].owner] EXCEPT !.rendered = {}]]_vars

\* the regeneration a request started behind a stale entry has ended, the
\* entry is the one the request was answered from, and the request's answer
\* is the stale page
C4_Witness ==
    \E r \in Reqs :
        /\ reqs[r].pc = "done" /\ reqs[r].nprod = 1
        /\ reqs[r].joined = NoProduction
        /\ reqs[r].key \in DOMAIN cache /\ reqs[r].key \notin DOMAIN pending
        /\ IsStale(cache[reqs[r].key])
        /\ reqs[r].out = Out("html", "html", cache[reqs[r].key])
        /\ reqs[r].status = 200

\* C5: a caller of get() with a null key runs its own producer, whatever is
\* stored or in flight; neither the call nor the producer's end touches the
\* store or the productions in flight, and the caller is handed what its own
\* producer returned.
C5_NullKeyBypasses ==
    [][/\ NoKey \notin DOMAIN cache' /\ NoKey \notin DOMAIN pending'
       /\ \A r \in Reqs :
             /\ (IsGetStep(r) /\ reqs[r].key = NoKey)
                => /\ reqs'[r].pc = "produce"
                   /\ reqs'[r].nprod = reqs[r].nprod + 1
                   /\ reqs'[r].joined = <<r, reqs[r].nprod + 1>>
                   /\ cache' = cache /\ pending' = pending
             /\ (reqs[r].pc = "produce" /\ reqs'[r] # reqs[r])
                => /\ cache' = cache /\ pending' = pending
                   /\ reqs'[r].got.tag = "entry"
                         => <<reqs'[r].got.entry.by, reqs'[r].got.entry.n>>
                               = <<r, reqs[r].nprod>>
                   /\ \A p \in Reqs \ {r} : reqs'[p] = reqs[p]]_vars

\* two requests with a null key have each been handed the entry of their own
\* producer, and the store is as it was built
C5_Witness ==
    \E r1, r2 \in Reqs :
        /\ r1 # r2
        /\ reqs[r1].pc = "done" /\ reqs[r2].pc = "done"
        /\ reqs[r1].key = NoKey /\ reqs[r2].key = NoKey
        /\ reqs[r1].in = reqs[r2].in
        /\ reqs[r1].got.tag = "entry" /\ reqs[r1].got.entry.by = r1
        /\ reqs[r2].got.tag = "entry" /\ reqs[r2].got.entry.by = r2
        /\ cache = BuildCache(pagesManifest)

(***************************************************************************)
(* Properties of the cache key (SpecKey).                                  *)
(***************************************************************************)
KeyComputed(q) == q.pc \in {"get", "await", "produce"}

\* C6: whenever a key has been computed for a page, it is null if preview
\* mode is active, the page is not statically generated, the server is in
\* minimal mode or dynamic HTML is in effect.
C6_KeyNullWhenBypassed ==
    \A r \in Reqs :
        (/\ KeyComputed(reqs[r])
         /\ \/ isPreviewMode(reqs[r].page, reqs[r].in)
            \/ ~isSSG(reqs[r].page)
            \/ server.minimalMode
            \/ supportsDynamicHTML(server, reqs[r].page, reqs[r].in, reqs[r].dynHTML))
        => reqs[r].key = NoKey

\* C7: two requests whose keys are the same non-null string are at the same
\* page with the same params.
C7_SameKeySamePageAndParams ==
    \A r1, r2 \in Reqs :
        (/\ KeyComputed(reqs[r1]) /\ KeyComputed(reqs[r2])
         /\ reqs[r1].key # NoKey
         /\ reqs[r1].key = reqs[r2].key)
        => /\ reqs[r1].pathname = reqs[r2].pathname
           /\ reqs[r1].params = reqs[r2].params

(***************************************************************************)
(* Properties of the dispatch of a request to a page (SpecDispatch).       *)
(***************************************************************************)
\* the first dynamic route that takes the request's path, and its page
FirstRoute(q) == FirstDynamic(q, 1)
HasExactPage(q) == ~isDynamicRoute(q.in.pathname) /\ Find(q, q.in.pathname).found

\* a request for a path that an exact page and a dynamic page both take
ExactAndDynamic(q) == q.pc # "idle" /\ HasExactPage(q) /\ FirstRoute(q) # 0

\* C8: a request for a path that both an exact page and a dynamic page take
\* is at the exact page for as long as it is at a page, it is answered from
\* an entry of the exact page, and no dynamic page is rendered for it,
\* whichever page the manifest declares first.
C8_ExactPageWins ==
    \A r \in Reqs :
        ExactAndDynamic(reqs[r])
        => /\ reqs[r].phase = "page"
              => /\ reqs[r].pathname = reqs[r].in.pathname
                 /\ reqs[r].dyn = 0
                 /\ reqs[r].out.entry # NoEntry
                       => reqs[r].out.entry.pathname = reqs[r].in.pathname
           /\ \A i \in 1..Len(dynamicRoutes) : PathStr(dynamicRoutes[i]) \notin reqs[r].rendered

\* /post/create was answered from an entry of the page /post/create although
\* /post/[id], which takes the path too, is declared before it
C8_Witness ==
    \E r \in Reqs, i, j \in 1..Len(pagesManifest) :
        /\ ExactAndDynamic(reqs[r])
        /\ reqs[r].pc = "done" /\ reqs[r].out.type = "html"
        /\ reqs[r].out.entry.pathname = <<"post", "create">>
        /\ reqs[r].in.pathname = <<"post", "create">>
        /\ pagesManifest[i].page = <<"post", "[id]">>
        /\ pagesManifest[j].page = <<"post", "create">>
        /\ i < j
        /\ RouteMatch(<<"post", "[id]">>, reqs[r].in.pathname).matched

\* a request in production whose path no exact page takes, whose first
\* dynamic page is statically generated with fallback false, and whose path
\* is not stored
FallbackFalsePage(page) == isSSG(page) /\ getStaticPathsFallbackMode(page) = "false"

FallbackFalseMissAt(q, i) ==
    /\ ~server.dev
    /\ q.pc # "idle"
    /\ PathStr(q.in.pathname) \notin DOMAIN cache
    /\ ~HasExactPage(q)
    /\ i # 0
    /\ FallbackFalsePage(Find(q, dynamicRoutes[i]).page)

FallbackFalseMiss(q) == FallbackFalseMissAt(q, FirstRoute(q))

\* C9 as stated: such a request, once answered, has status 404, and its
\* dynamic page is never rendered.
C9_AsStated ==
    \A r \in Reqs :
        (FallbackFalseMiss(reqs[r]) /\ reqs[r].pc = "done")
        => /\ reqs[r].status = 404
           /\ PathStr(dynamicRoutes[FirstRoute(reqs[r])]) \notin reqs[r].rendered

\* C9: outside preview mode and minimal mode the dynamic page with fallback
\* false is never rendered for such a request; the request ends on the /404
\* page with status 404 when no later dynamic route takes its path and it
\* does not ask for NoFallbackError to bubble.
NoFallbackIs404(q, i) ==
    FallbackFalseMissAt(q, i)
    => /\ PathStr(dynamicRoutes[i]) \notin q.rendered
       /\ (q.pc = "done" /\ ~q.in.bubble /\ FirstDynamic(q, i + 1) = 0)
          => /\ q.status = 404
             /\ q.phase = "error"
             /\ q.pathname = <<"404">>

C9_NoFallbackIs404 ==
    \A r \in Reqs :
        (~server.minimalMode /\ ~reqs[r].in.preview)
        => \A i \in {FirstRoute(reqs[r])} : NoFallbackIs404(reqs[r], i)

\* the producer of /post/[id] ran for /post/2 and threw, and the request was
\* answered with the /404 page
C9_Witness ==
    \E r \in Reqs :
        /\ FallbackFalseMiss(reqs[r])
        /\ ~server.minimalMode /\ ~reqs[r].in.preview /\ ~reqs[r].in.bubble
        /\ reqs[r].pc = "done"
        /\ reqs[r].got = GotThrow(NoFallbackError)
        /\ reqs[r].nprod = 1 /\ reqs[r].rendered = {}
        /\ reqs[r].status = 404 /\ reqs[r].out = Out("html", "static", NoEntry)

\* a request that missed the store for a dynamic page with a fallback file,
\* in production, and was not a data request
StaticFallbackMiss(q) ==
    /\ ~server.dev
    /\ q.pc = "done" /\ q.phase = "page" /\ q.how = "miss"
    /\ isDynamicRoute(q.pathname)
    /\ isSSG(q.page)
    /\ getStaticPathsFallbackMode(q.page) = "static"
    /\ ~isDataReq(q.page, q.in)

AnsweredWithSkeleton(q) ==
    /\ q.out.type = "html"
    /\ q.out.entry.from = "skeleton"
    /\ q.out.entry.revalidate = RevalUndefined
    /\ PathStr(q.pathname) \notin q.rendered
    /\ q.key \in DOMAIN cache => cache[q.key] # q.out.entry

\* C10 as stated: such a request is answered with the skeleton, without a
\* render, from an entry without revalidate that is not stored.
C10_AsStated ==
    \A r \in Reqs : StaticFallbackMiss(reqs[r]) => AnsweredWithSkeleton(reqs[r])

\* C10: such a request, when its user agent is not a crawler's, is answered
\* with the skeleton, without a render, from an entry without revalidate
\* that is not stored; no stored entry is a skeleton.
C10_SkeletonOnStaticFallback ==
    /\ \A r \in Reqs :
          (StaticFallbackMiss(reqs[r]) /\ ~reqs[r].in.bot) => AnsweredWithSkeleton(reqs[r])
    /\ \A k \in DOMAIN cache : cache[k].from # "skeleton"

\* /post/2 missed the store and was answered with the skeleton of /post/[id]
C10_Witness ==
    \E r \in Reqs :
        /\ StaticFallbackMiss(reqs[r]) /\ ~reqs[r].in.bot
        /\ reqs[r].in.pathname = <<"post", "2">>
        /\ reqs[r].pathname = <<"post", "[id]">>
        /\ reqs[r].nprod = 1
        /\ AnsweredWithSkeleton(reqs[r])
        /\ reqs[r].key \notin DOMAIN cache

(***************************************************************************)
(* Properties of the producer's fallback modes (Spec).                     *)
(***************************************************************************)
\* a production started by a miss for a dynamic page with fallback blocking
BlockingMiss(p) ==
    /\ ~p.hasResolved
    /\ isDynamicRoute(p.pathname)
    /\ isSSG(p.page)
    /\ hasStaticPaths(p.page)
    /\ getStaticPathsFallbackMode(p.page) = "blocking"

\* C11: the production a miss starts for a dynamic page with fallback
\* blocking invokes the renderer for that page; it never ends in a
\* NoFallbackError, and the entry it ends with is made by the render, is
\* the entry its caller is handed and is the entry stored under the key.
C11_BlockingRendersInline ==
    [][\A k \in DOMAIN pending :
          (BlockingMiss(pending[k]) /\ k \notin DOMAIN pending')
          => /\ PathStr(pending[k].pathname) \in reqs'[pending[k].owner].rendered
             /\ reqs'[pending[k].owner].got # GotThrow(NoFallbackError)
             /\ reqs'[pending[k].owner].got.tag = "entry"
                   => /\ reqs'[pending[k].owner].got.entry.from = "render"
                      /\ reqs'[pending[k].owner].got.entry.revalidate # RevalUndefined
                      /\ k \in DOMAIN cache'
                      /\ cache'[k] = reqs'[pending[k].owner].got.entry]_vars

\* /post/2 missed the store, the page /post/[id] with fallback blocking was
\* rendered for it, and the request was answered from the entry now stored
C11_Witness ==
    \E r \in Reqs :
        /\ reqs[r].pc = "done" /\ reqs[r].how = "miss"
        /\ reqs[r].pathname = <<"post", "[id]">>
        /\ getStaticPathsFallbackMode(reqs[r].page) = "blocking"
        /\ reqs[r].got.tag = "entry" /\ reqs[r].got.entry.from = "render"
        /\ reqs[r].got.entry.by = r
        /\ reqs[r].key \in DOMAIN cache /\ cache[reqs[r].key] = reqs[r].got.entry
        /\ reqs[r].out.entry = reqs[r].got.entry
        /\ reqs[r].rendered = {"/post/[id]"}

(***************************************************************************)
(* Properties of error handling at the dispatch boundary (SpecDispatch).   *)
(***************************************************************************)
\* C12: a request whose last production ended in a NoFallbackError is never
\* answered with status 500, page request or data request, with or without
\* _nextBubbleNoFallback.
C12_NoFallbackNever500 ==
    \A r \in Reqs :
        (reqs[r].pc = "done" /\ reqs[r].got = GotThrow(NoFallbackError))
        => reqs[r].status # 500

(***************************************************************************)
(* Properties of data requests and of malformed paths (SpecData).          *)
(***************************************************************************)
MalformedPath(q) == \E i \in 1..Len(q.in.url) : q.in.url[i] \in Malformed

\* the error page could not be rendered: the hardcoded 500
HardcodedError(q) ==
    q.status = 500 /\ q.out.body = "Internal Server Error" /\ q.got = GotThrow(RenderError)

IsDataOf(d, p) ==
    /\ ~d.direct /\ ~p.direct
    /\ d.url = DataRequest(p.url).url
    /\ d.amp = p.amp /\ d.preview = p.preview /\ d.bot = p.bot /\ d.bubble = p.bubble

\* the page that the request of q is first dispatched to, and the key there
FirstResolution(q) == Dispatch(Arrived(q.in))

SameResolution(a, b) ==
    /\ a.phase = b.phase
    /\ a.pathname = b.pathname
    /\ a.page = b.page
    /\ a.params = b.params
    /\ a.key = b.key

AtPage(q) == q.phase = "page" /\ q.pc # "idle"

DataAnswered(q) ==
    q.in.data /\ ~q.in.direct /\ AtPage(q) /\ q.pc = "done" /\ q.out.type \in {"html", "json"}

\* C15 as stated: a data request that resolves to a page is answered with
\* json and never with the page's HTML, whatever the kind of the page.
C15_AsStated ==
    \A r \in Reqs : DataAnswered(reqs[r]) => reqs[r].out.type = "json"

\* C15: a data request that resolves to a page with getStaticProps or
\* getServerSideProps is answered with json: the page's data alone, or the
\* redirect it reported; for a page without them the request is no data
\* request and is answered with the page's HTML.
C15_DataRequestGetsJson ==
    \A r \in Reqs :
        DataAnswered(reqs[r])
        => IF reqs[r].page.kind \in {"ssg", "ssp"}
           THEN /\ reqs[r].out.type = "json"
                /\ reqs[r].out.body \in {"pageData", "redirect"}
                /\ reqs[r].out.body = "pageData" <=> reqs[r].out.entry.value = "PAGE"
           ELSE reqs[r].out.type = "html"

\* about.json of a page with getServerSideProps, answered with its data
C15_Witness ==
    \E r \in Reqs :
        /\ DataAnswered(reqs[r])
        /\ reqs[r].page = Page(<<"about">>, "ssp", None)
        /\ reqs[r].out.type = "json"
        /\ reqs[r].out.body = "pageData"
        /\ reqs[r].out.entry.from = "render"
        /\ reqs[r].status = 200

\* a request for /_next/data/... that the route table has taken
IsDataUrl(q) ==
    /\ q.pc # "idle" /\ ~q.in.direct /\ ~DecodeFails(q.in.url)
    /\ Len(q.in.url) >= 2 /\ SubSeq(q.in.url, 1, 2) = <<"_next", "data">>

HasBuildId(q) == Len(q.in.url) >= 3 /\ q.in.url[3] = BuildId

\* C16: a /_next/data/ request whose first segment is missing or is not
\* the build id is answered with 404 and no page is rendered for it; with
\* the build id, that segment is no part of the page path handed to render.
C16_BuildIdValidated ==
    \A r \in Reqs :
        IsDataUrl(reqs[r])
        => IF HasBuildId(reqs[r])
           THEN /\ \A i \in 1..Len(reqs[r].in.pathname) : reqs[r].in.pathname[i] # BuildId
                /\ Len(reqs[r].in.pathname) <= Len(reqs[r].in.url) - 3
           ELSE /\ ~reqs[r].in.data
                /\ reqs[r].phase = "error"
                /\ reqs[r].rendered \subseteq {"/404", "/_error"}
                /\ reqs[r].pc = "done" => reqs[r].status = 404

\* about.json under another build id answered with the /404 page, and
\* about.json under the build id with the page /about, in one run
C16_Witness ==
    \E r1, r2 \in Reqs :
        /\ reqs[r1].pc = "done" /\ IsDataUrl(reqs[r1])
        /\ Len(reqs[r1].in.url) >= 3
        /\ reqs[r1].in.url[3] = "nope"
        /\ reqs[r1].status = 404
        /\ reqs[r1].pathname = <<"404">>
        /\ reqs[r1].rendered = {}
        /\ reqs[r2].pc = "done" /\ IsDataUrl(reqs[r2]) /\ HasBuildId(reqs[r2])
        /\ reqs[r2].in.data
        /\ reqs[r2].in.pathname = <<"about">>
        /\ reqs[r2].out.type = "json"

\* the value that the cache resolved for the page of q
Resolved(q, value) ==
    q.pc = "done" /\ q.got.tag = "entry" /\ q.got.entry.value = value

\* C17: when the resolved value is a redirect, a data request is answered
\* with json describing the redirect, without a 3xx status and without
\* Location; any other request is answered with a 3xx status and Location
\* and no page payload.
C17_RedirectByRequestKind ==
    \A r \in Reqs :
        Resolved(reqs[r], "REDIRECT")
        => IF reqs[r].in.data
           THEN /\ reqs[r].out.type = "json"
                /\ reqs[r].out.body = "redirect"
                /\ reqs[r].status = 200
           ELSE /\ reqs[r].out.type = "redirect"
                /\ reqs[r].out.body = "Location"
                /\ reqs[r].status \in 300..399

\* /about and about.json of a page that redirects: one 307 with Location,
\* one json with status 200
C17_Witness ==
    \E r1, r2 \in Reqs :
        /\ Resolved(reqs[r1], "REDIRECT") /\ Resolved(reqs[r2], "REDIRECT")
        /\ IsDataOf(reqs[r2].in, reqs[r1].in)
        /\ reqs[r1].page.page = <<"about">>
        /\ reqs[r1].status = 307 /\ reqs[r1].out.type = "redirect"
        /\ reqs[r2].status = 200 /\ reqs[r2].out.type = "json"
        /\ reqs[r2].out.body = "redirect"

\* C18: when the resolved value is "not found", the page's own HTML or data
\* is never sent: a request that is no data request is handed to the 404
\* error page with status 404, a data request is answered with status 404.
C18_NotFoundIs404 ==
    \A r \in Reqs :
        Resolved(reqs[r], "NOTFOUND")
        => /\ reqs[r].status = 404
           /\ reqs[r].out.body \notin {"html", "pageData"}
           /\ IF reqs[r].in.data
              THEN reqs[r].out = Out("ended", "notFound", reqs[r].got.entry)
              ELSE /\ reqs[r].phase = "error"
                   /\ reqs[r].pathname = <<"404">>
                   /\ reqs[r].out = Out("html", "static", NoEntry)

\* /about and about.json of a page that reports notFound, both with 404
C18_Witness ==
    \E r1, r2 \in Reqs :
        /\ Resolved(reqs[r1], "NOTFOUND") /\ Resolved(reqs[r2], "NOTFOUND")
        /\ IsDataOf(reqs[r2].in, reqs[r1].in)
        /\ reqs[r1].got.entry.pathname = <<"about">>
        /\ reqs[r1].status = 404 /\ reqs[r1].pathname = <<"404">>
        /\ reqs[r2].status = 404 /\ reqs[r2].pathname = <<"about">>
        /\ reqs[r2].out.body = "notFound"

(***************************************************************************)
(* Properties of the middleware (SpecMiddleware).                          *)
(***************************************************************************)
\* a request that the route table has handed to the catch-all middleware
ThroughMiddleware(q) ==
    /\ q.pc # "idle" /\ ~q.in.direct /\ ~server.minimalMode
    /\ ~DecodeFails(q.in.url)
    /\ ~(Len(q.in.url) >= 2 /\ SubSeq(q.in.url, 1, 2) = <<"_next", "data">>)

MatchingMiddleware(q) ==
    {i \in 1..Len(server.middleware) :
        MiddlewareMatch(server.middleware[i],
                        normalizeLocalePath(q.in.url, server.locales).pathname)}

\* the matching middleware that runMiddleware does not leave out
Runnable(q) ==
    {i \in MatchingMiddleware(q) :
        server.middleware[i].present /\ MiddlewareName(server.middleware[i]) \notin q.in.subrequests}

LastInvoked(q) == server.middleware[q.mw.invoked[Len(q.mw.invoked)]]

\* what a response asks for
Asks(res) ==
    IF HeadersHas(res.headers, "Location") /\ res.headers["location"] # <<"">> THEN "redirect"
    ELSE IF HeadersHas(res.headers, "x-middleware-rewrite")
    THEN IF HeadersGet(res.headers, "x-middleware-rewrite")
               \in {"http://other/about", "http://self:3000/about"}
         THEN "proxy" ELSE "rewrite"
    ELSE IF HeadersHas(res.headers, "x-middleware-next") THEN "next"
    ELSE "refresh"

\* the last middleware invoked has answered, and the request is no preflight
ChainAnswered(q) ==
    q.mw.invoked # <<>> /\ LastInvoked(q).throws = None /\ ~q.in.preflight

\* the outcome answers what the chain asked for
OutcomeAsAsked(q) ==
    /\ q.mw.outcome = "no_match" <=> MatchingMiddleware(q) = {}
    /\ ChainAnswered(q) => q.mw.outcome = Asks(LastInvoked(q).response)

\* the pathname of the request is the one it had before the middleware
PathnameLeft(q) ==
    \E in \in workload :
        in.url = q.in.url /\ in.hasRewrote = q.in.hasRewrote /\ in.rewrote = q.in.rewrote

\* what each outcome of the state machine comes to
OutcomeEffect(q) ==
    /\ q.mw.outcome = "no_match"
          => ~q.mw.finished /\ q.mw.invoked = <<>> /\ PathnameLeft(q) /\ q.headers = <<>>
    /\ q.mw.outcome = "next"
          => /\ ~q.mw.finished /\ PathnameLeft(q)
             /\ \A i \in 1..Len(q.mw.invoked) :
                   DOMAIN server.middleware[q.mw.invoked[i]].response.headers
                      \ {"x-middleware-next"} \subseteq DOMAIN q.headers
    /\ q.mw.outcome = "rewrite"
          => /\ ~q.mw.finished /\ q.in.hasRewrote
             /\ q.in.rewrote = prepareDestination(
                    HeadersGet(LastInvoked(q).response.headers, "x-middleware-rewrite")).newUrl
    /\ q.mw.outcome = "proxy"
          => q.mw.finished /\ q.pc = "done" /\ q.out.body = "proxied"
    /\ q.mw.outcome = "redirect"
          => /\ q.mw.finished /\ q.pc = "done" /\ q.out.type = "redirect"
             /\ "location" \in DOMAIN q.headers
             /\ q.status = LastInvoked(q).response.status
    /\ q.mw.outcome = "refresh"
          => /\ q.mw.finished /\ q.pc = "done"
             /\ q.out.body = LastInvoked(q).response.body
    /\ q.mw.outcome \in {"proxy", "redirect", "refresh"}
          => q.phase = None /\ q.rendered = {} /\ q.got = GotNothing

\* C19 as stated: the catch-all middleware maps every request to one of
\* no match, next, rewrite (or proxy), redirect and refresh, as the chain
\* asks, with the effect of that outcome.
C19_AsStated ==
    \A r \in Reqs :
        ThroughMiddleware(reqs[r])
        => /\ reqs[r].mw.outcome \in {"no_match", "next", "rewrite", "proxy", "redirect", "refresh"}
           /\ OutcomeAsAsked(reqs[r])
           /\ OutcomeEffect(reqs[r])

\* C19: the catch-all middleware maps every request to exactly one outcome.
\* No middleware matches: finished is false and nothing is invoked.  The
\* chain answers a request that is no preflight: next merges the headers
\* and leaves finished false and the pathname alone, rewrite leaves
\* finished false with the new pathname or proxies another host, redirect
\* ends the response with Location, refresh ends it with the body; redirect,
\* refresh and proxy never go on to a render.  Otherwise the route ends the
\* response itself: 200 for a preflight, the 404 page when no middleware
\* gave a result or one threw ENOENT, the error page with 500 when one
\* threw anything else.
C19_MiddlewareOutcome ==
    \A r \in Reqs :
        ThroughMiddleware(reqs[r])
        => /\ reqs[r].mw.outcome \in {"no_match", "next", "rewrite", "proxy", "redirect",
                                      "refresh", "preflight", "not_found", "error"}
           /\ OutcomeAsAsked(reqs[r])
           /\ OutcomeEffect(reqs[r])
           /\ reqs[r].mw.outcome \in {"preflight", "not_found", "error"}
                 => /\ reqs[r].mw.finished
                    /\ reqs[r].phase \in {None, "error"}
                    /\ reqs[r].rendered \subseteq {"/_error"}
           /\ reqs[r].mw.outcome = "preflight"
                 => reqs[r].in.preflight /\ reqs[r].pc = "done" /\ reqs[r].status = 200
           /\ reqs[r].mw.outcome = "not_found"
                 => /\ reqs[r].pc = "done" => reqs[r].status = 404
                    /\ \/ Runnable(reqs[r]) = {}
                       \/ reqs[r].mw.invoked # <<>> /\ LastInvoked(reqs[r]).throws = "ENOENT"
           /\ reqs[r].mw.outcome = "error"
                 => /\ reqs[r].pc = "done" => reqs[r].status = 500
                    /\ reqs[r].mw.invoked # <<>> /\ LastInvoked(reqs[r]).throws = "Error"

\* /post/2 under a root middleware that continues with a header and a
\* /post middleware that redirects: ended with 307, Location and the header
C19_Witness ==
    \E r1, r2 \in Reqs :
        /\ reqs[r1].in.url = <<"post", "2">>
        /\ reqs[r1].mw = Mw("redirect", TRUE, <<1, 2>>)
        /\ reqs[r1].pc = "done" /\ reqs[r1].status = 307
        /\ DOMAIN reqs[r1].headers = {"location", "x-user", "x-middleware-rewrite"}
        /\ reqs[r1].rendered = {}
        /\ reqs[r2].in.url = <<"about">>
        /\ reqs[r2].mw = Mw("next", FALSE, <<1>>)
        /\ reqs[r2].pc = "done" /\ reqs[r2].rendered = {"/about"}
        /\ DOMAIN reqs[r2].headers = {"x-user"}

\* the i-th middleware answers, and with the continue marker
Continues(i) ==
    /\ server.middleware[i].throws = None
    /\ HeadersHas(server.middleware[i].response.headers, "x-middleware-next")

WasInvoked(q, i) == \E k \in 1..Len(q.mw.invoked) : q.mw.invoked[k] = i

\* C20: runMiddleware invokes the matching middleware in their order, and a
\* middleware is invoked exactly when every one invoked before it has
\* answered with x-middleware-next: after a response without the marker no
\* later middleware is invoked, with the marker the next matching one is.
C20_ChainStopsWithoutMarker ==
    \A r \in Reqs :
        ThroughMiddleware(reqs[r])
        => /\ \A k \in 1..Len(reqs[r].mw.invoked) :
                 /\ reqs[r].mw.invoked[k] \in Runnable(reqs[r])
                 /\ k > 1 => reqs[r].mw.invoked[k - 1] < reqs[r].mw.invoked[k]
           /\ \A i \in Runnable(reqs[r]) :
                 WasInvoked(reqs[r], i)
                 <=> \A j \in Runnable(reqs[r]) : j < i => Continues(j)

\* /post/2 under a root middleware that answers with a body: the /post
\* middleware, which matches too, is not invoked
C20_Witness ==
    \E r \in Reqs :
        /\ ThroughMiddleware(reqs[r])
        /\ reqs[r].in.url = <<"post", "2">>
        /\ Runnable(reqs[r]) = {1, 2}
        /\ server.middleware[1].response = ResponseBody(200)
        /\ reqs[r].mw.invoked = <<1>>
        /\ reqs[r].mw.outcome = "refresh"
        /\ reqs[r].pc = "done"

\* the chain gave a result and its headers were written to the response
HeadersWritten(q) ==
    ThroughMiddleware(q) /\ q.mw.outcome \notin {None, "no_match", "not_found", "error"}

\* the middleware invoked for q that set the header k, in their order
Writers(q, k) ==
    SelectSeq(q.mw.invoked,
              LAMBDA i : server.middleware[i].throws = None
                         /\ k \in DOMAIN server.middleware[i].response.headers)

\* C21: when several invoked middleware of one chain set the same header
\* name, compared without case, the merged result carries the value that
\* the last of them wrote.
C21_LastWriterWins ==
    \A r \in Reqs :
        HeadersWritten(reqs[r])
        => \A k \in DOMAIN reqs[r].headers \ {"x-middleware-refresh", "refresh"} :
              Writers(reqs[r], k) # <<>>
              => reqs[r].headers[k]
                    = server.middleware[Writers(reqs[r], k)[Len(Writers(reqs[r], k))]]
                         .response.headers[k]

\* C22: whatever the chain comes to, x-middleware-next is never among the
\* headers written to the response.
C22_MarkerNeverWritten ==
    \A r \in Reqs : "x-middleware-next" \notin DOMAIN reqs[r].headers

\* /post/2 after two middleware that both answered with the marker and a
\* header: the header is written, the marker is not
C22_Witness ==
    \E r \in Reqs :
        /\ HeadersWritten(reqs[r])
        /\ reqs[r].mw = Mw("next", FALSE, <<1, 2>>)
        /\ Continues(1) /\ Continues(2)
        /\ DOMAIN reqs[r].headers = {"x-user"}
        /\ reqs[r].pc = "done"
        /\ reqs[r].rendered = {"/post/[id]"}

\* a matching middleware of q has no edge bundle
SomeUnavailable(q) ==
    \E i \in MatchingMiddleware(q) : ~server.middleware[i].present

\* C23: a matching middleware whose edge bundle is unavailable is skipped
\* and does not fail the request: the matching middleware after it are
\* still run, and when no middleware gives a result the request goes on to
\* the render of its page and not to an error response.
C23_UnavailableIsSkipped ==
    \A r \in Reqs :
        (ThroughMiddleware(reqs[r]) /\ SomeUnavailable(reqs[r]))
        => /\ \A i \in 1..Len(reqs[r].mw.invoked) :
                 server.middleware[reqs[r].mw.invoked[i]].present
           /\ \A i \in Runnable(reqs[r]) :
                 (\A j \in Runnable(reqs[r]) : j < i => Continues(j)) => WasInvoked(reqs[r], i)
           /\ (\A i \in MatchingMiddleware(reqs[r]) : ~server.middleware[i].present)
                 => /\ ~reqs[r].mw.finished
                    /\ reqs[r].phase # "error"
                    /\ reqs[r].status # 404

\* the middleware invoked for q that answered and whose background task
\* fails
Rejected(q) ==
    {i \in 1..Len(server.middleware) :
        /\ WasInvoked(q, i)
        /\ server.middleware[i].throws = None
        /\ server.middleware[i].waitUntil = "rejects"}

InSeq(seq, x) == \E k \in 1..Len(seq) : seq[k] = x

\* the failure of a background task has not changed what the chain came to
NotFailedByTask(q) ==
    /\ q.mw.outcome = "error" => LastInvoked(q).throws = "Error"
    /\ ChainAnswered(q) => q.mw.outcome = Asks(LastInvoked(q).response)
    /\ q.mw.outcome \in {"next", "rewrite", "no_match"} => ~q.mw.finished

\* C24 as stated: in development and in production, the failure of the
\* background task of a middleware is logged and does not fail the request.
C24_AsStated ==
    \A r \in Reqs :
        ThroughMiddleware(reqs[r])
        => /\ \A i \in Rejected(reqs[r]) :
                 InSeq(reqs[r].waitUntil.logged, i) /\ ~InSeq(reqs[r].waitUntil.unhandled, i)
           /\ NotFailedByTask(reqs[r])

\* C24: in production runMiddleware sets a handler on the background task
\* of every result, which logs its failure, and the request is answered as
\* the chain asks; in development runMiddleware sets no handler: the
\* failure is not logged by it and is left to whoever called it.
C24_WaitUntilLoggedInProduction ==
    \A r \in Reqs :
        ThroughMiddleware(reqs[r])
        => /\ \A i \in Rejected(reqs[r]) :
                 IF server.dev
                 THEN /\ InSeq(reqs[r].waitUntil.unhandled, i)
                      /\ ~InSeq(reqs[r].waitUntil.logged, i)
                 ELSE /\ InSeq(reqs[r].waitUntil.logged, i)
                      /\ ~InSeq(reqs[r].waitUntil.unhandled, i)
           /\ \A i \in 1..Len(server.middleware) :
                 (InSeq(reqs[r].waitUntil.logged, i) \/ InSeq(reqs[r].waitUntil.unhandled, i))
                 => i \in Rejected(reqs[r])
           /\ NotFailedByTask(reqs[r])

\* in production, /about after a root middleware whose background task
\* failed: the failure logged, the page rendered
C24_Witness ==
    \E r \in Reqs :
        /\ ~server.dev
        /\ ThroughMiddleware(reqs[r])
        /\ reqs[r].in.url = <<"about">>
        /\ Rejected(reqs[r]) = {1}
        /\ reqs[r].waitUntil = [logged |-> <<1>>, unhandled |-> <<>>]
        /\ reqs[r].mw.outcome = "next"
        /\ reqs[r].pc = "done" /\ reqs[r].status = 200
        /\ reqs[r].out.type = "html" /\ reqs[r].rendered = {"/about"}

\* C25: when some middleware matches the request, the middleware chain is
\* run exactly once for it, also when a rewrite makes route matching start
\* again with a new path.
C25_ChainRunsOnce ==
    \A r \in Reqs :
        (ThroughMiddleware(reqs[r]) /\ MatchingMiddleware(reqs[r]) # {})
        => reqs[r].chainRuns = 1

(***************************************************************************)
(* Properties of the error path (SpecError).                               *)
(***************************************************************************)
\* an error that is not a DecodeError left run() for handleRequest's catch:
\* the one renderToResponse throws again after its 500, the NoFallbackError
\* of the /_next/data route
LeftRun(q) ==
    /\ q.pc = "done"
    /\ ~q.in.direct
    /\ \/ q.rethrow
       \/ q.got = GotThrow(NoFallbackError) /\ q.in.data /\ q.in.bubble /\ q.phase = "page"

EndedWith500(q) ==
    q.status = 500 /\ q.out = Out("ended", "Internal Server Error", NoEntry)

HasPage(pathname) == \E i \in 1..Len(pagesManifest) : pagesManifest[i].page = pathname

\* renderErrorToResponse has just taken an error page for request r
TakesErrorPage(r) == reqs[r].phase # "error" /\ reqs'[r].phase = "error"

\* the page renderErrorToResponse is to take for a status, None without one
ErrorPageFor(status) ==
    IF status = 404 /\ HasPage(<<"404">>) THEN <<"404">>
    ELSE IF status = 500 /\ HasPage(<<"500">>) THEN <<"500">>
    ELSE IF HasPage(<<"_error">>) THEN <<"_error">>
    ELSE None

\* C27: renderErrorToResponse takes /404 for a status of 404 when the page
\* exists, else the static status page named after the status (/500) when
\* it exists, else /_error: a later choice only when the earlier ones are
\* not available.
C27_ErrorPageOrder ==
    [][\A r \in Reqs :
          TakesErrorPage(r) => reqs'[r].pathname = ErrorPageFor(reqs'[r].status)]_vars

C27_Witness ==
    \E r \in Reqs :
        /\ reqs[r].phase = "error" /\ reqs[r].pc = "produce"
        /\ reqs[r].pathname = <<"_error">>
        /\ reqs[r].status = 500
        /\ HasPage(<<"404">>) /\ ~HasPage(<<"500">>)

\* the render of the error page of request r has just thrown
ErrorPageThrew(r) ==
    /\ reqs[r].phase = "error" /\ reqs[r].pc \in {"await", "produce"}
    /\ reqs'[r] # reqs[r]
    /\ reqs'[r].got.tag = "throw"

\* what renderErrorToResponse returns after a failure; renderToResponse
\* drops it where it throws the first error on
HardcodedOrThrownOn(q) ==
    q.out = IF q.rethrow THEN Out("thrown", RenderError, NoEntry)
            ELSE Out("html", "Internal Server Error", NoEntry)

\* no error page for the status of the request: a page that is not there
\* without /404, a path that does not decode, in a build without /_error
NoErrorPage(q) ==
    /\ q.pc = "done" /\ ~HasPage(<<"_error">>)
    /\ \/ q.in.url = <<"nope">> /\ ~HasPage(<<"404">>)
       \/ DecodeFails(q.in.url)

C29_DataNeverFromSkeleton ==
    \A r \in Reqs :
        /\ reqs[r].pc = "done"
        /\ isDataReq(reqs[r].page, reqs[r].in)
        /\ isSSG(reqs[r].page) /\ reqs[r].dyn > 0
        /\ reqs[r].out.type = "json"
        => reqs[r].out.entry.from # "skeleton"

(***************************************************************************)
(* render() and handleRequest (SpecError).                                 *)
(***************************************************************************)
\* the request as the custom server or the client made it
AsAsked(q) == {in \in workload : in.url = q.in.url /\ in.direct = q.in.direct}

\* C30: the render() of a route never hands its request back to
\* handleRequest, so a /_next/data request is rendered by the one call the
\* data route makes; render() hands a request to handleRequest once at
\* most, and only one a custom server gave it without the data flag for a
\* url under /_next/ or /static/ outside minimal mode.
C30_RenderRedispatchesOnce ==
    \A r \in Reqs :
        /\ reqs[r].pc # "handleRequest"
        /\ reqs[r].hops <= 1
        /\ reqs[r].hops = 1 =>
              /\ ~server.minimalMode
              /\ reqs[r].in.direct
              /\ IsNextOrStatic(server, reqs[r].in.url)
              /\ \E in \in AsAsked(reqs[r]) : ~in.data
        /\ reqs[r].pc # "idle" /\ reqs[r].in.direct /\ reqs[r].hops = 0 =>
              \/ server.minimalMode
              \/ ~IsNextOrStatic(server, reqs[r].in.url)
              \/ \E in \in AsAsked(reqs[r]) : in.data

C30_Witness ==
    \E r \in Reqs :
        /\ reqs[r].pc = "done" /\ reqs[r].hops = 1
        /\ reqs[r].in.url = <<"_next", "data", BuildId, "about.json">>
        /\ reqs[r].in.data
        /\ reqs[r].out.type = "json"

(***************************************************************************)
(* Rewrites of the middleware (SpecMiddleware).                            *)
(***************************************************************************)
\* the chain has answered request q with a rewrite and no Location
AsksRewrite(q) ==
    /\ ThroughMiddleware(q) /\ ChainAnswered(q)
    /\ HeadersHas(LastInvoked(q).response.headers, "x-middleware-rewrite")
    /\ ~HeadersHas(LastInvoked(q).response.headers, "Location")

RewriteTo(q) == HeadersGet(LastInvoked(q).response.headers, "x-middleware-rewrite")

\* the destinations with a protocol whose host, with its port, is not the
\* Host header of the request
OtherHosts == {"http://other/about", "http://self:3000/about"}

\* C31: a rewrite of the middleware is proxied exactly when its destination
\* has a protocol and its host (hostname, with the port when it has one) is
\* not the Host header of the request; a destination on the request's host,
\* or without a protocol, is an internal rewrite: finished is false, the
\* request has the new pathname and nothing is proxied.
C31_ProxyOnlyOtherHost ==
    \A r \in Reqs :
        AsksRewrite(reqs[r])
        => IF RewriteTo(reqs[r]) \in OtherHosts
           THEN reqs[r].mw = Mw("proxy", TRUE, reqs[r].mw.invoked)
                /\ reqs[r].out.body = "proxied" /\ reqs[r].rendered = {}
           ELSE /\ reqs[r].mw = Mw("rewrite", FALSE, reqs[r].mw.invoked)
                /\ reqs[r].in.hasRewrote /\ reqs[r].in.rewrote = <<"about">>
                /\ reqs[r].out.body # "proxied"

C31_Witness ==
    \E r1, r2 \in Reqs :
        /\ AsksRewrite(reqs[r1]) /\ RewriteTo(reqs[r1]) = "http://self/about"
        /\ reqs[r1].pc = "done" /\ reqs[r1].mw.outcome = "rewrite"
        /\ reqs[r1].in.url = <<"post", "2">> /\ reqs[r1].pathname = <<"about">>
        /\ AsksRewrite(reqs[r2])

(***************************************************************************)
(* Bots and the fallback skeleton (SpecDispatch).                          *)
(***************************************************************************)
\* C32: a request whose user agent is a bot is never answered with the
\* fallback skeleton of a dynamic page, whether it started the production
\* for its key or joined the one a request that is no bot had in flight.
C32_BotNeverGetsSkeleton ==
    \A r \in Reqs :
        reqs[r].pc = "done" /\ reqs[r].in.bot /\ reqs[r].got.tag = "entry"
        => reqs[r].got.entry.from # "skeleton"

(***************************************************************************)
(* The producer after the response (Spec).                                 *)
(***************************************************************************)
\* production p is run with hasAlreadyResponded, or after its request was
\* answered
DidRespond(p) == p.hasResolved \/ isResSent(reqs[p.owner])

FullRender(got) ==
    /\ got # GotThrow(NoFallbackError)
    /\ got.tag = "entry" => got.entry.from = "render"

\* C33: a production run with hasAlreadyResponded, or after the response of
\* its request was sent, invokes the renderer for its page whatever the
\* fallback mode: it does not throw NoFallbackError, and what it stores or
\* hands to the callers awaiting it is no fallback skeleton.
C33_RespondedProducerRenders ==
    [][\A k \in DOMAIN pending :
          (DidRespond(pending[k]) /\ k \notin DOMAIN pending')
          => /\ PathStr(pending[k].pathname) \in reqs'[pending[k].owner].rendered
             /\ \A r \in Reqs :
                   (reqs[r].pc = "await" /\ reqs[r].joined = ProductionId(pending[k]))
                   => FullRender(reqs'[r].got)
             /\ (k \in DOMAIN cache' /\ (k \notin DOMAIN cache \/ cache'[k] # cache[k]))
                   => cache'[k].from = "render"]_vars

\* the regeneration behind a stale entry of a page without fallback has
\* ended in a render that a second request awaited
C33_Witness ==
    \E r1, r2 \in Reqs :
        /\ r1 # r2
        /\ reqs[r1].pc = "done" /\ reqs[r1].how = "stale"
        /\ reqs[r1].page.fallback = "false"
        /\ reqs[r1].rendered = {"/post/[id]"}
        /\ reqs[r2].pc = "done" /\ reqs[r2].how = "join" /\ reqs[r2].joined = <<r1, 1>>
        /\ reqs[r2].got.tag = "entry" /\ reqs[r2].got.entry.from = "render"

(***************************************************************************)
(* A missing cache entry (SpecData).                                       *)
(***************************************************************************)
\* responseCache.get has just handed request r no entry
GotNoEntry(r) ==
    /\ reqs[r].pc \in {"await", "produce"}
    /\ reqs'[r] # reqs[r]
    /\ reqs'[r].got = GotNull

\* C34: when responseCache.get yields no entry for a request with a key,
\* renderToResponseWithComponents raises the invariant error, which
\* renderToResponse answers as a failure with status 500; without a key it
\* returns null: the request ends with no payload and its status as it was.
C34_MissingEntryUnderKeyRaises ==
    [][\A r \in Reqs :
          GotNoEntry(r)
          => IF reqs[r].key # NoKey
             THEN /\ reqs'[r].status = 500
                  /\ reqs'[r].pc = "done" => reqs'[r].out # Out(None, None, NoEntry)
                  /\ reqs'[r].phase = "error" \/ reqs'[r].out.body = "Internal Server Error"
             ELSE /\ reqs'[r].pc = "done"
                  /\ reqs'[r].out = Out(None, None, NoEntry)
                  /\ reqs'[r].status = reqs[r].status
                  /\ reqs'[r].phase = reqs[r].phase]_vars

\* the render of /about under its key came to no body and the request is
\* at the /_error page with 500
C34_Witness ==
    \E r \in Reqs :
        /\ reqs[r].got = GotNull /\ reqs[r].in.url = <<"about">>
        /\ reqs[r].nprod = 1 /\ reqs[r].rendered = {"/about"}
        /\ reqs[r].pathname = <<"_error">> /\ reqs[r].phase = "error"
        /\ reqs[r].status = 500 /\ reqs[r].pc = "get"

(***************************************************************************)
(* The revalidate of the entries the producer returns (SpecDispatch).      *)
(***************************************************************************)
\* the entries in the store or in the hands of a request
Entries ==
    {cache[k] : k \in DOMAIN cache}
        \cup {reqs[r].got.entry : r \in {x \in Reqs : reqs[x].got.tag = "entry"}}

\* the revalidate of a rendered entry: the renderer's, or 1 without one
RevalidateOf(o) ==
    IF o.revalidate = RevalUndefined THEN Reval("number", 1) ELSE o.revalidate

\* C35: an entry the producer returns from a full render has a revalidate,
\* the renderer's value or 1 when the renderer gave none; an entry returned
\* for a fallback, the prebuilt skeleton of production or the fallback
\* rendered on demand in development, has none.
C35_RevalidateByOrigin ==
    \A e \in Entries :
        /\ e.from \in {"render", "skeleton", "devFallback"} \/ e.by = NoReq
        /\ (e.from = "render" /\ e.by # NoReq)
              => /\ e.revalidate # RevalUndefined
                 /\ \E o \in renderer : o.kind = e.value /\ e.revalidate = RevalidateOf(o)
        /\ e.from \in {"skeleton", "devFallback"} => e.revalidate = RevalUndefined

C35_Witness ==
    \E r1, r2 \in Reqs :
        /\ reqs[r1].got.tag = "entry" /\ reqs[r1].got.entry.from = "devFallback"
        /\ reqs[r1].got.entry.revalidate = RevalUndefined
        /\ reqs[r2].got.tag = "entry" /\ reqs[r2].got.entry.from = "render"
        /\ reqs[r2].got.entry.value = "PAGE"
        /\ reqs[r2].got.entry.revalidate = Reval("number", 1)
        /\ renderer = PageOrNotFound

(***************************************************************************)
(* The header x-middleware-subrequest (SpecMiddleware).                    *)
(***************************************************************************)
\* the matching middleware that the request names in x-middleware-subrequest
NamedBy(q) ==
    {i \in MatchingMiddleware(q) :
        server.middleware[i].present /\ PathStr(server.middleware[i].page) \in q.in.subrequests}

\* C36: a middleware named in the x-middleware-subrequest header of a
\* request is not invoked for it; the chain goes on as after a 'next': the
\* matching middleware after it is invoked, and a chain in which nothing
\* else was to run lets the request go on to its page.
C36_SubrequestNotInvoked ==
    \A r \in Reqs :
        (ThroughMiddleware(reqs[r]) /\ NamedBy(reqs[r]) # {})
        => /\ \A i \in NamedBy(reqs[r]) : ~WasInvoked(reqs[r], i)
           /\ \A j \in Runnable(reqs[r]) :
                 (\A k \in Runnable(reqs[r]) : k >= j) => WasInvoked(reqs[r], j)
           /\ Runnable(reqs[r]) = {}
                 => /\ reqs[r].mw = Mw("next", FALSE, <<>>)
                    /\ reqs[r].phase # None /\ reqs[r].in.pathname = <<"post", "2">>

C36_Witness ==
    \E r \in Reqs :
        /\ ThroughMiddleware(reqs[r]) /\ NamedBy(reqs[r]) = {1}
        /\ server.middleware[1].response = ResponseBody(200)
        /\ reqs[r].mw.invoked = <<2>> /\ reqs[r].mw.outcome = "rewrite"
        /\ reqs[r].pc = "done"

(***************************************************************************)
(* Location before rewrite (SpecMiddleware).                               *)
(***************************************************************************)
\* the chain has answered request q with a Location header
AnsweredLocation(q) ==
    /\ ThroughMiddleware(q)
    /\ q.mw.invoked # <<>> /\ LastInvoked(q).throws = None
    /\ "location" \in DOMAIN LastInvoked(q).response.headers

EndsAsRedirect(q) ==
    /\ q.mw = Mw("redirect", TRUE, q.mw.invoked)
    /\ q.pc = "done" /\ q.out.type = "redirect"
    /\ q.status = LastInvoked(q).response.status

\* neither rewritten nor proxied nor streamed a body, and no page rendered
NothingElseDone(q) ==
    /\ PathnameLeft(q)
    /\ q.out.body \notin {"proxied", "body"}
    /\ q.phase = None /\ q.rendered = {} /\ q.nprod = 0

\* C37 as stated: a request whose middleware result carries a Location
\* header ends as a redirect, with no rewrite, proxy, body or render, also
\* when the result carries x-middleware-rewrite.
C37_AsStated ==
    \A r \in Reqs :
        AnsweredLocation(reqs[r]) => EndsAsRedirect(reqs[r]) /\ NothingElseDone(reqs[r])

\* C37: a request that is no preflight and whose middleware result carries
\* a Location header that is not empty ends as a redirect with the status of
\* the result, also when the result carries x-middleware-rewrite: nothing is
\* rewritten, proxied, streamed or rendered.  A preflight ends with 200 and
\* no redirect; an empty Location is no Location, and the rewrite is taken.
C37_LocationBeforeRewrite ==
    \A r \in Reqs :
        AnsweredLocation(reqs[r])
        => IF reqs[r].in.preflight
           THEN /\ reqs[r].mw.outcome = "preflight" /\ reqs[r].status = 200
                /\ reqs[r].out.type = "ended" /\ NothingElseDone(reqs[r])
           ELSE IF LastInvoked(reqs[r]).response.headers["location"] = <<"">>
           THEN /\ reqs[r].mw.outcome = "rewrite" /\ ~reqs[r].mw.finished
                /\ reqs[r].in.hasRewrote /\ reqs[r].in.rewrote = <<"about">>
           ELSE EndsAsRedirect(reqs[r]) /\ NothingElseDone(reqs[r])

C37_Witness ==
    \E r \in Reqs :
        /\ AnsweredLocation(reqs[r]) /\ ~reqs[r].in.preflight
        /\ "x-middleware-rewrite" \in DOMAIN LastInvoked(reqs[r]).response.headers
        /\ LastInvoked(reqs[r]).response.headers["location"] = <<"/about">>
        /\ EndsAsRedirect(reqs[r]) /\ reqs[r].status = 307
        /\ DOMAIN reqs[r].headers = {"location", "x-middleware-rewrite"}

(***************************************************************************)
(* The url the middleware is matched against (SpecMiddleware).             *)
(***************************************************************************)
\* the request has a rewritten pathname, from a rewrite before the
\* middleware route or from the middleware itself
WasRewritten(q) == ThroughMiddleware(q) /\ q.in.hasRewrote

FirstOf(S) == CHOOSE i \in S : \A j \in S : i <= j

LocaleApi(q) ==
    /\ q.pc # "idle" /\ ~q.in.direct
    /\ normalizeLocalePath(q.in.url, server.locales).detectedLocale # ""
    /\ IsApi(normalizeLocalePath(q.in.url, server.locales).pathname)

\* C39: a request whose url has a locale prefix that is taken off, and whose
\* remaining path is /api or under /api/, is answered with 404 before
\* routing: no route and no middleware has run for it and no API handler
\* has answered it.
C39_LocaleApiIs404 ==
    \A r \in DOMAIN reqs :
        LocaleApi(reqs[r]) =>
            /\ reqs[r].status = 404
            /\ reqs[r].out.body # "api"
            /\ reqs[r].mw.outcome = None
            /\ reqs[r].chainRuns = 0
            /\ reqs[r].pc = "done" => reqs[r].out.type = "html"

C39_Witness ==
    \E r, o \in DOMAIN reqs :
        /\ LocaleApi(reqs[r]) /\ reqs[r].pc = "done" /\ reqs[r].status = 404
        /\ reqs[r].in.url = <<"en", "api", "hello">>
        /\ reqs[o].in.url = <<"api", "hello">> /\ reqs[o].pc = "done"
        /\ reqs[o].out.body = "api" /\ reqs[o].status = 200

\* render404 entered again by a request that is rendering the 404 page
Render404Reentered(q) == q.pc = "render404"

\* C40: rendering a 404 ends with one response whatever the 404 page's own
\* render comes to: no request enters render404 again from the 404 page it
\* is rendering, in particular not when the value resolved for the 404 page
\* is itself "not found".
C40_Render404NotReentered ==
    \A r \in DOMAIN reqs : ~Render404Reentered(reqs[r])

\* the re-entry is from the /404 page, under status 404, with "not found"
\* as the value the response cache resolved for it
C40_ReentryFrom404Page ==
    \A r \in DOMAIN reqs :
        Render404Reentered(reqs[r]) =>
            /\ reqs[r].pathname = <<"404">> /\ reqs[r].phase = "error"
            /\ reqs[r].status = 404 /\ reqs[r].page.kind = "ssg"
            /\ reqs[r].depth = MaxDepth

====
